---- MODULE Spec2Model ----
(***************************************************************************)
(* A model of the pitch-graph viewers of athulya2307/pitchgraph: the       *)
(* parser of pitch files, the window filter, the Hz-to-cents conversion    *)
(* and the card state of PitchGraphMulti with its asynchronous file reads. *)
(*                                                                         *)
(* JavaScript numbers are records [k, v]: k = "fin" with v the value in    *)
(* thousandths (261.63 is v = 261630), or k = "inf", "ninf", "nan" with    *)
(* v = 0.  Strings are TLA+ strings; the numerals of the input pools have  *)
(* at most three fractional digits and values that thousandths hold, so    *)
(* that every value the model computes is exact.                           *)
(***************************************************************************)
EXTENDS Integers, Sequences, FiniteSets, TLC

VARIABLES
    pc,          \* which step of the specification at hand has been taken
    text,        \* parsePitchData: the text of the file
    data,        \* parsePitchData: the rows pushed, before data.sort
    series,      \* parsePitchData: the array it returned
    hz,          \* hzToCents: first argument
    tonicHz,     \* hzToCents: second argument
    cents,       \* hzToCents: the value it returned
    pitchData,   \* PitchGraphCard: the pitchData prop
    startTime,   \* PitchGraphCard: the startTime prop
    endTime,     \* PitchGraphCard: the endTime prop
    tonic,       \* PitchGraphCard: the tonic prop
    filtered,    \* PitchGraphCard: the filteredData it derived
    rounded,     \* PitchGraphCard.drawGraph: the window was rounded to samples
    numCards,    \* PitchGraphMulti: the value of the card-count field
    useSameFile, \* PitchGraphMulti: one file for all cards
    graphsData,  \* PitchGraphMulti: the array of card records
    sharedFileData, \* PitchGraphMulti: the Series and name of the shared file
    reads,       \* the FileReader reads in flight, each [index, file]
    alert,       \* the alert the last step raised, "" when none
    error,       \* the exception that ended the app, "" when none
    min,         \* getYTicks: first argument
    max,         \* getYTicks: second argument
    count,       \* getYTicks: third argument
    minCents,    \* getSwaraTicks: first argument
    maxCents,    \* getSwaraTicks: second argument
    minSpacing,  \* getSwaraTicks: third argument
    height,      \* getSwaraTicks: fourth argument
    allTicks,    \* getSwaraTicks: the candidates, before the filter
    ticks        \* getYTicks, getSwaraTicks: the array returned

parseVars == <<text, data, series>>
centsVars == <<hz, tonicHz, cents>>
cardVars == <<pitchData, startTime, endTime, tonic, filtered, rounded>>

multiVars == <<numCards, useSameFile, graphsData, sharedFileData, reads, alert, error>>

tickVars == <<min, max, count, minCents, maxCents, minSpacing, height, allTicks, ticks>>

vars == <<pc, parseVars, centsVars, cardVars, multiVars, tickVars>>

-----------------------------------------------------------------------------
(* Bounds of the model *)

MaxLines == 3
MaxLineLen == 3
MaxCards == 2
MaxReads == 1

-----------------------------------------------------------------------------
(* JavaScript numbers *)

Fin(n) == [k |-> "fin", v |-> n]
NaN == [k |-> "nan", v |-> 0]
PosInf == [k |-> "inf", v |-> 0]
NegInf == [k |-> "ninf", v |-> 0]
Null == [k |-> "null", v |-> 0]

isNaN(a) == a.k = "nan"
isFinite(a) == a.k = "fin"

Neg(a) ==
    CASE a.k = "fin" -> Fin(0 - a.v)
      [] a.k = "inf" -> NegInf
      [] a.k = "ninf" -> PosInf
      [] OTHER -> a

\* a < b, a <= b, a >= b of two numbers: false as soon as one is NaN
NumLt(a, b) ==
    /\ ~isNaN(a) /\ ~isNaN(b)
    /\ \/ a.k = "ninf" /\ b.k # "ninf"
       \/ a.k = "fin" /\ b.k = "inf"
       \/ a.k = "fin" /\ b.k = "fin" /\ a.v < b.v

NumEq(a, b) == ~isNaN(a) /\ ~isNaN(b) /\ a = b
NumLe(a, b) == NumLt(a, b) \/ NumEq(a, b)
NumGe(a, b) == NumLe(b, a)
NumGt(a, b) == NumLt(b, a)

\* a - b; only its sign is used (the comparator of sort), so that a finite
\* difference is kept as is and an infinite one as an infinity
NumSub(a, b) ==
    CASE isNaN(a) \/ isNaN(b) -> NaN
      [] a.k = "fin" /\ b.k = "fin" -> Fin(a.v - b.v)
      [] a.k = "fin" -> Neg(b)
      [] b.k = "fin" -> a
      [] a.k = b.k -> NaN
      [] OTHER -> a

-----------------------------------------------------------------------------
(* Strings *)

Ch(s, i) == SubSeq(s, i, i)

\* the white space String.prototype.trim and the numeric parsers strip
WhiteSpace == {" ", "\t", "\r", "\n", "\f"}

RECURSIVE TrimLeft(_)
TrimLeft(s) ==
    IF Len(s) > 0 /\ Ch(s, 1) \in WhiteSpace THEN TrimLeft(Tail(s)) ELSE s

RECURSIVE TrimRight(_)
TrimRight(s) ==
    IF Len(s) > 0 /\ Ch(s, Len(s)) \in WhiteSpace
    THEN TrimRight(SubSeq(s, 1, Len(s) - 1))
    ELSE s

trim(s) == TrimRight(TrimLeft(s))

IsDigit(c) == c \in {"0", "1", "2", "3", "4", "5", "6", "7", "8", "9"}

DigitVal(c) ==
    CASE c = "0" -> 0 [] c = "1" -> 1 [] c = "2" -> 2 [] c = "3" -> 3
      [] c = "4" -> 4 [] c = "5" -> 5 [] c = "6" -> 6 [] c = "7" -> 7
      [] c = "8" -> 8 [] c = "9" -> 9

\* the index after the run of digits that starts at i
RECURSIVE DigitsEnd(_, _)
DigitsEnd(s, i) ==
    IF i <= Len(s) /\ IsDigit(Ch(s, i)) THEN DigitsEnd(s, i + 1) ELSE i

\* the value of the digits s[i..j-1] as an integer
RECURSIVE IntVal(_, _, _)
IntVal(s, i, j) ==
    IF j <= i THEN 0 ELSE IntVal(s, i, j - 1) * 10 + DigitVal(Ch(s, j - 1))

\* the value, in thousandths, of the fraction digits s[i..j-1]
FracVal(s, i, j) ==
    LET d(n) == IF i + n < j THEN DigitVal(Ch(s, i + n)) ELSE 0
    IN  d(0) * 100 + d(1) * 10 + d(2)

RECURSIVE Pow10(_)
Pow10(n) == IF n = 0 THEN 1 ELSE 10 * Pow10(n - 1)

\* m thousandths times 10^n (or 10^-n when neg): beyond the largest double
\* it is Infinity, below the smallest it is 0
ScaleByExponent(m, neg, n) ==
    IF m = 0 THEN Fin(0)
    ELSE IF neg THEN (IF n > 330 THEN Fin(0) ELSE Fin(m \div Pow10(n)))
    ELSE IF n > 311 THEN PosInf ELSE Fin(m * Pow10(n))

\* The longest unsigned StrDecimalLiteral that starts at index i of s:
\* "Infinity", or digits, digits "." digits, "." digits, each with an
\* optional exponent part.  ok is false when there is none; end is the index
\* after it.
StrDecimalLiteral(s, i) ==
    IF i + 7 <= Len(s) /\ SubSeq(s, i, i + 7) = "Infinity"
    THEN [ok |-> TRUE, num |-> PosInf, end |-> i + 8]
    ELSE LET a == DigitsEnd(s, i)
             hasDot == a <= Len(s) /\ Ch(s, a) = "."
             b == IF hasDot THEN DigitsEnd(s, a + 1) ELSE a
             m == IntVal(s, i, a) * (10 * 100)
                      + (IF hasDot THEN FracVal(s, a + 1, b) ELSE 0)
             hasE == b <= Len(s) /\ Ch(s, b) \in {"e", "E"}
             signed == hasE /\ b + 1 <= Len(s) /\ Ch(s, b + 1) \in {"+", "-"}
             c == IF signed THEN b + 2 ELSE b + 1
             d == IF hasE THEN DigitsEnd(s, c) ELSE c
         IN  IF ~(a > i \/ (hasDot /\ b > a + 1))
             THEN [ok |-> FALSE, num |-> NaN, end |-> i]
             ELSE IF hasE /\ d > c
             THEN [ok |-> TRUE,
                   num |-> ScaleByExponent(m, signed /\ Ch(s, b + 1) = "-",
                                           IntVal(s, c, d)),
                   end |-> d]
             ELSE [ok |-> TRUE, num |-> Fin(m), end |-> b]

HasSign(t) == Len(t) > 0 /\ Ch(t, 1) \in {"+", "-"}

\* parseFloat(s): the number denoted by the longest numeric prefix of s
\* after its leading white space, NaN when there is none
parseFloat(s) ==
    LET t == TrimLeft(s)
        r == StrDecimalLiteral(t, IF HasSign(t) THEN 2 ELSE 1)
    IN  IF ~r.ok THEN NaN
        ELSE IF HasSign(t) /\ Ch(t, 1) = "-" THEN Neg(r.num) ELSE r.num

\* Number(s) of a string: 0 for the empty or blank string, the number the
\* whole trimmed string denotes, NaN when it is not a numeric literal
Number(s) ==
    LET t == trim(s)
        r == StrDecimalLiteral(t, IF HasSign(t) THEN 2 ELSE 1)
    IN  IF t = "" THEN Fin(0)
        ELSE IF ~r.ok \/ r.end # Len(t) + 1 THEN NaN
        ELSE IF Ch(t, 1) = "-" THEN Neg(r.num) ELSE r.num

\* the first index >= i of s that holds a character of set C when want is
\* true, not of C when want is false; Len(s) + 1 when there is none
RECURSIVE Scan(_, _, _, _)
Scan(s, i, C, want) ==
    IF i > Len(s) \/ ((Ch(s, i) \in C) = want) THEN i
    ELSE Scan(s, i + 1, C, want)

\* text.split(/\r?\n/)
RECURSIVE SplitLines(_)
SplitLines(t) ==
    LET i == Scan(t, 1, {"\n"}, TRUE)
        e == IF i > 1 /\ i <= Len(t) /\ Ch(t, i - 1) = "\r" THEN i - 2 ELSE i - 1
    IN  IF i > Len(t) THEN <<t>>
        ELSE <<SubSeq(t, 1, e)>> \o SplitLines(SubSeq(t, i + 1, Len(t)))

Separators == {" ", ",", "\t"}

\* s.split(/[ ,\t]+/)
RECURSIVE SplitTokens(_)
SplitTokens(s) ==
    LET i == Scan(s, 1, Separators, TRUE)
        j == Scan(s, i, Separators, FALSE)
    IN  IF i > Len(s) THEN <<s>>
        ELSE <<SubSeq(s, 1, i - 1)>> \o SplitTokens(SubSeq(s, j, Len(s)))

-----------------------------------------------------------------------------
(* parsePitchData *)

\* the comparator with its operands exchanged: (a, b) => b.x - a.x
CompareTimeDescending(a, b) ==
    LET d == NumSub(b.x, a.x)
    IN  CASE d.k = "nan" -> 0
          [] d.k = "inf" -> 1
          [] d.k = "ninf" -> 0 - 1
          [] OTHER -> IF d.v < 0 THEN 0 - 1 ELSE IF d.v > 0 THEN 1 ELSE 0

\* the comparator (a, b) => a.x - b.x as sort reads it: negative, zero or
\* positive, a NaN result counting as zero
CompareTime(a, b) ==
    LET d == NumSub(a.x, b.x)
    IN  CASE d.k = "nan" -> 0
          [] d.k = "inf" -> 1
          [] d.k = "ninf" -> 0 - 1
          [] OTHER -> IF d.v < 0 THEN 0 - 1 ELSE IF d.v > 0 THEN 1 ELSE 0

\* an insertion that places an element before the elements equal to it
RECURSIVE InsertSortedUnstable(_, _)
InsertSortedUnstable(sorted, p) ==
    IF sorted = <<>> THEN <<p>>
    ELSE IF CompareTime(sorted[Len(sorted)], p) < 0 THEN Append(sorted, p)
    ELSE Append(InsertSortedUnstable(SubSeq(sorted, 1, Len(sorted) - 1), p),
                sorted[Len(sorted)])

\* Array.prototype.sort is stable: an element is placed after every element
\* that does not compare greater than it
RECURSIVE InsertSorted(_, _)
InsertSorted(sorted, p) ==
    IF sorted = <<>> THEN <<p>>
    ELSE IF CompareTime(sorted[Len(sorted)], p) <= 0 THEN Append(sorted, p)
    ELSE Append(InsertSorted(SubSeq(sorted, 1, Len(sorted) - 1), p),
                sorted[Len(sorted)])

RECURSIVE SortByTime(_)
SortByTime(rows) ==
    IF rows = <<>> THEN <<>>
    ELSE InsertSorted(SortByTime(SubSeq(rows, 1, Len(rows) - 1)), rows[Len(rows)])

\* the loop body reading the value from the third token
ParseLineThirdToken(line) ==
    LET tokens == SplitTokens(trim(line))
        t == parseFloat(tokens[1])
        p == parseFloat(tokens[3])
    IN  IF trim(line) = "" THEN <<>>
        ELSE IF Len(tokens) < 3 THEN <<>>
        ELSE IF isNaN(t) \/ isNaN(p) THEN <<>>
        ELSE <<[x |-> t, y |-> p]>>

\* the loop body without the check of the second token
ParseLineTimeOnly(line) ==
    LET tokens == SplitTokens(trim(line))
        t == parseFloat(tokens[1])
        p == parseFloat(tokens[2])
    IN  IF trim(line) = "" THEN <<>>
        ELSE IF Len(tokens) < 2 THEN <<>>
        ELSE IF isNaN(t) THEN <<>>
        ELSE <<[x |-> t, y |-> p]>>

\* the body of the loop over the lines: the row pushed for a line, or none
ParseLine(line) ==
    LET tokens == SplitTokens(trim(line))
        t == parseFloat(tokens[1])
        p == parseFloat(tokens[2])
    IN  IF trim(line) = "" THEN <<>>
        ELSE IF Len(tokens) < 2 THEN <<>>
        ELSE IF isNaN(t) \/ isNaN(p) THEN <<>>
        ELSE <<[x |-> t, y |-> p]>>

RECURSIVE ParseLines(_)
ParseLines(lines) ==
    IF lines = <<>> THEN <<>>
    ELSE ParseLines(SubSeq(lines, 1, Len(lines) - 1)) \o ParseLine(lines[Len(lines)])

\* the rows in the order of the file, before data.sort
ParseRows(t) == ParseLines(SplitLines(t))

parsePitchData(t) == SortByTime(ParseRows(t))

-----------------------------------------------------------------------------
(* The texts a file can hold *)

\* lines of a pitch file: well-formed rows, malformed rows, blank lines
SampleLines ==
    { "0.1 200", "0.3 210", "0.2", "", "abc def", "  ", "0.1,150\t9 9",
      "-1 0", "0.3 -5", "Infinity 5", "2 -Infinity", "7x 8y", ",1 2" }

LineAlphabet == {"1", "2", " ", ",", "a"}

\* every line of at most n characters over LineAlphabet
RECURSIVE LinesUpTo(_)
LinesUpTo(n) ==
    IF n = 0 THEN {""}
    ELSE LinesUpTo(n - 1) \cup {l \o c : l \in LinesUpTo(n - 1), c \in LineAlphabet}

LineBreaks == {"\n", "\r\n"}

RECURSIVE TextsOf(_, _)
TextsOf(n, nl) ==
    IF n = 1 THEN SampleLines
    ELSE TextsOf(n - 1, nl) \cup {t \o nl \o l : t \in TextsOf(n - 1, nl), l \in SampleLines}

\* a file with malformed rows between well-formed ones
MalformedText == "abc def\n0.1 200\n\n0.2\n0.3 210"

Texts ==
    UNION {TextsOf(MaxLines, nl) : nl \in LineBreaks}
        \cup LinesUpTo(MaxLineLen) \cup {MalformedText}

-----------------------------------------------------------------------------
(* IEEE 754 doubles, for the arithmetic of the tick functions: sums,       *)
(* products and quotients are rounded to 53 bits, to nearest, ties to      *)
(* even, with overflow to Infinity and gradual underflow.  A double is a   *)
(* record [k, neg, m, e]: for k = "fin" its value is (-1)^neg * m * 2^e,   *)
(* where m < 2^53 is a natural number written in limbs (digits of base     *)
(* 2^15, the least significant first) and m >= 2^52 unless e is the least  *)
(* exponent; k is "inf", "ninf" or "nan" otherwise.  0 and -0 are one      *)
(* value.                                                                  *)

\* the bits of the significand, the least exponent of m * 2^e and the
\* exponent of the least power of two that is not finite
MantissaBits == 53
MinExponent == 0 - 1074
MaxExponent == 1024

\* an operator applied to the values of its operands
Strict1(Op(_), x) == CHOOSE r \in {Op(a) : a \in {x}} : TRUE
Strict2(Op(_, _), x, y) == CHOOSE r \in {Op(a, b) : a \in {x}, b \in {y}} : TRUE

\* natural numbers of any size: sequences of limbs, without leading zeros
LimbBits == 15
Base == 2^LimbBits

Limb(a, i) == IF i >= 1 /\ i <= Len(a) THEN a[i] ELSE 0

RECURSIVE Trim(_)
Trim(a) == IF a = <<>> \/ a[Len(a)] # 0 THEN a ELSE Trim(SubSeq(a, 1, Len(a) - 1))

RECURSIVE NatOf(_)
NatOf(n) == IF n = 0 THEN <<>> ELSE <<n % Base>> \o NatOf(n \div Base)

RECURSIVE AddFrom(_, _, _, _)
AddFrom(a, b, i, c) ==
    IF i > Len(a) /\ i > Len(b) THEN (IF c = 0 THEN <<>> ELSE <<c>>)
    ELSE LET t == Limb(a, i) + Limb(b, i) + c
         IN  <<t % Base>> \o AddFrom(a, b, i + 1, t \div Base)

NatAdd(a, b) == AddFrom(a, b, 1, 0)

RECURSIVE SubFrom(_, _, _, _)
SubFrom(a, b, i, c) ==
    IF i > Len(a) THEN <<>>
    ELSE LET t == Limb(a, i) - Limb(b, i) - c
         IN  <<(t + Base) % Base>> \o SubFrom(a, b, i + 1, IF t < 0 THEN 1 ELSE 0)

\* a - b for a >= b
NatSub(a, b) == Trim(SubFrom(a, b, 1, 0))

RECURSIVE CmpFrom(_, _, _)
CmpFrom(a, b, i) ==
    IF i = 0 THEN 0
    ELSE IF a[i] # b[i] THEN (IF a[i] > b[i] THEN 1 ELSE 0 - 1)
    ELSE CmpFrom(a, b, i - 1)

\* the sign of a - b
NatCmp(a, b) ==
    IF Len(a) # Len(b) THEN (IF Len(a) > Len(b) THEN 1 ELSE 0 - 1)
    ELSE CmpFrom(a, b, Len(a))

RECURSIVE MulLimbFrom(_, _, _, _)
MulLimbFrom(a, d, i, c) ==
    IF i > Len(a) THEN (IF c = 0 THEN <<>> ELSE <<c>>)
    ELSE LET t == a[i] * d + c
         IN  <<t % Base>> \o MulLimbFrom(a, d, i + 1, t \div Base)

\* a * d for a limb d
NatMulLimb(a, d) == IF d = 0 THEN <<>> ELSE MulLimbFrom(a, d, 1, 0)

RECURSIVE NatMul(_, _)
NatMul(a, b) ==
    IF a = <<>> \/ b = <<>> THEN <<>>
    ELSE NatAdd(NatMulLimb(a, Head(b)),
                IF Len(b) = 1 THEN <<>> ELSE <<0>> \o NatMul(a, Tail(b)))

\* the number of bits of a
BitLength(a) ==
    IF a = <<>> THEN 0
    ELSE LimbBits * (Len(a) - 1)
             + (CHOOSE n \in 1..LimbBits : 2^(n - 1) <= a[Len(a)] /\ a[Len(a)] < 2^n)

\* a * 2^k and the integer part of a / 2^k
NatShiftLeft(a, k) ==
    IF a = <<>> THEN <<>>
    ELSE [i \in 1..(k \div LimbBits) |-> 0] \o NatMulLimb(a, 2^(k % LimbBits))

NatShiftRight(a, k) ==
    LET drop == k \div LimbBits
        r == k % LimbBits
        high == IF drop >= Len(a) THEN <<>> ELSE SubSeq(a, drop + 1, Len(a))
    IN  Trim([i \in 1..Len(high) |->
                 (high[i] \div 2^r) + (Limb(high, i + 1) % 2^r) * 2^(LimbBits - r)])

\* the bit of weight 2^j of a, and whether a bit of less weight than 2^k is set
NatBit(a, j) == (Limb(a, j \div LimbBits + 1) \div 2^(j % LimbBits)) % 2
NatLowBits(a, k) == NatShiftLeft(NatShiftRight(a, k), k) # a

\* the greatest limb q in lo..hi with q * b <= r
RECURSIVE QuotientLimb(_, _, _, _)
QuotientLimb(r, b, lo, hi) ==
    IF lo = hi THEN lo
    ELSE LET mid == (lo + hi + 1) \div 2
         IN  IF NatCmp(NatMulLimb(b, mid), r) <= 0 THEN QuotientLimb(r, b, mid, hi)
             ELSE QuotientLimb(r, b, lo, mid - 1)

\* the quotient and the remainder of the limbs i.. of a by b, long division
RECURSIVE DivFrom(_, _, _)
DivFrom(a, b, i) ==
    IF i > Len(a) THEN [q |-> <<>>, r |-> <<>>]
    ELSE Strict1(LAMBDA p :
                     Strict1(LAMBDA r2 :
                                 Strict1(LAMBDA d :
                                             [q |-> <<d>> \o p.q,
                                              r |-> NatSub(r2, NatMulLimb(b, d))],
                                         QuotientLimb(r2, b, 0, Base - 1)),
                             Trim(<<a[i]>> \o p.r)),
                 DivFrom(a, b, i + 1))

NatDivMod(a, b) ==
    LET d == DivFrom(a, b, 1) IN [q |-> Trim(d.q), r |-> d.r]

DZero == [k |-> "fin", neg |-> FALSE, m |-> <<>>, e |-> MinExponent]
DNaN == [k |-> "nan", neg |-> FALSE, m |-> <<>>, e |-> 0]
DPosInf == [k |-> "inf", neg |-> FALSE, m |-> <<>>, e |-> 0]
DNegInf == [k |-> "ninf", neg |-> TRUE, m |-> <<>>, e |-> 0]
DInf(neg) == IF neg THEN DNegInf ELSE DPosInf

\* the double of value (-1)^neg * m * 2^e, for m <= 2^53 and e not below
\* the least exponent
Normal(neg, m, e) ==
    LET n == BitLength(m)
        up == IF MantissaBits - n < e - MinExponent THEN MantissaBits - n
              ELSE e - MinExponent
    IN  IF m = <<>> THEN DZero
        ELSE IF n > MantissaBits
        THEN [k |-> "fin", neg |-> neg, m |-> NatShiftRight(m, 1), e |-> e + 1]
        ELSE [k |-> "fin", neg |-> neg, m |-> NatShiftLeft(m, up), e |-> e - up]

\* the double nearest to (-1)^neg * (m + f) * 2^e, ties to even, where
\* 0 <= f < 1 and f > 0 exactly when sticky
RoundToDouble(neg, m, e, sticky) ==
    Strict1(LAMBDA v :
                LET n == BitLength(v)
                    d0 == IF n - MantissaBits > MinExponent - e THEN n - MantissaBits
                          ELSE MinExponent - e
                    d == IF d0 > 0 THEN d0 ELSE 0
                    low == sticky \/ (d > 1 /\ NatLowBits(v, d - 1))
                IN  Strict1(LAMBDA kept :
                                LET up == d > 0 /\ NatBit(v, d - 1) = 1
                                              /\ (low \/ NatBit(kept, 0) = 1)
                                IN  Strict1(LAMBDA r :
                                                IF BitLength(r) + e + d > MaxExponent
                                                THEN DInf(neg)
                                                ELSE Normal(neg, r, e + d),
                                            IF up THEN NatAdd(kept, <<1>>) ELSE kept),
                            NatShiftRight(v, d)),
            m)

DIsNaN(a) == a.k = "nan"
DIsFinite(a) == a.k = "fin"
DIsZero(a) == a.k = "fin" /\ a.m = <<>>
DNeg(a) ==
    CASE a.k = "inf" -> DNegInf
      [] a.k = "ninf" -> DPosInf
      [] a.k = "nan" -> a
      [] OTHER -> IF a.m = <<>> THEN a ELSE [a EXCEPT !.neg = ~a.neg]

\* Math.abs
DAbs(a) == IF a.neg THEN DNeg(a) ELSE a

\* the sign of a - b, a and b finite
DCompareValues(a, b) ==
    LET magnitude == IF a.e # b.e THEN (IF a.e > b.e THEN 1 ELSE 0 - 1)
                     ELSE NatCmp(a.m, b.m)
    IN  IF a.m = <<>> /\ b.m = <<>> THEN 0
        ELSE IF a.m = <<>> THEN (IF b.neg THEN 1 ELSE 0 - 1)
        ELSE IF b.m = <<>> THEN (IF a.neg THEN 0 - 1 ELSE 1)
        ELSE IF a.neg # b.neg THEN (IF a.neg THEN 0 - 1 ELSE 1)
        ELSE IF a.neg THEN 0 - magnitude ELSE magnitude

\* a < b, a === b, a <= b, a >= b, a > b on numbers
DLtValues(a, b) ==
    CASE a.k = "nan" \/ b.k = "nan" -> FALSE
      [] a.k = "ninf" -> b.k # "ninf"
      [] b.k = "inf" -> a.k # "inf"
      [] a.k = "inf" \/ b.k = "ninf" -> FALSE
      [] OTHER -> DCompareValues(a, b) < 0
DLt(x, y) == Strict2(DLtValues, x, y)
DEq(x, y) == Strict2(LAMBDA a, b : a.k # "nan" /\ a = b, x, y)
DLe(x, y) == DLt(x, y) \/ DEq(x, y)
DGe(x, y) == DLe(y, x)
DGt(x, y) == DLt(y, x)

\* big + small or big - small, where small is less than a quarter of the
\* last bit of big: small only decides the rounding
AddFar(big, small) ==
    IF big.neg = small.neg
    THEN RoundToDouble(big.neg, NatShiftLeft(big.m, 2), big.e - 2, TRUE)
    ELSE RoundToDouble(big.neg, NatSub(NatShiftLeft(big.m, 2), <<1>>), big.e - 2, TRUE)

\* a + b
DAddValues(a, b) ==
    CASE a.k = "nan" \/ b.k = "nan" -> DNaN
      [] a.k # "fin" /\ b.k # "fin" -> IF a.k = b.k THEN a ELSE DNaN
      [] a.k # "fin" -> a
      [] b.k # "fin" -> b
      [] a.m = <<>> -> b
      [] b.m = <<>> -> a
      [] a.e > b.e + MantissaBits + 2 -> AddFar(a, b)
      [] b.e > a.e + MantissaBits + 2 -> AddFar(b, a)
      [] OTHER ->
           LET e0 == IF a.e < b.e THEN a.e ELSE b.e
               A == NatShiftLeft(a.m, a.e - e0)
               B == NatShiftLeft(b.m, b.e - e0)
           IN  IF a.neg = b.neg THEN RoundToDouble(a.neg, NatAdd(A, B), e0, FALSE)
               ELSE IF NatCmp(A, B) >= 0
               THEN RoundToDouble(a.neg, NatSub(A, B), e0, FALSE)
               ELSE RoundToDouble(b.neg, NatSub(B, A), e0, FALSE)

DAdd(x, y) == Strict2(DAddValues, x, y)

\* a - b
DSub(a, b) == DAdd(a, DNeg(b))

\* a * b
DMulValues(a, b) ==
    CASE a.k = "nan" \/ b.k = "nan" -> DNaN
      [] a.k # "fin" \/ b.k # "fin" ->
           IF DIsZero(a) \/ DIsZero(b) THEN DNaN ELSE DInf(a.neg # b.neg)
      [] a.m = <<>> \/ b.m = <<>> -> DZero
      [] OTHER -> RoundToDouble(a.neg # b.neg, NatMul(a.m, b.m), a.e + b.e, FALSE)

DMul(x, y) == Strict2(DMulValues, x, y)

\* a / b
DDivValues(a, b) ==
    CASE a.k = "nan" \/ b.k = "nan" -> DNaN
      [] a.k # "fin" -> IF b.k # "fin" THEN DNaN ELSE DInf(a.neg # b.neg)
      [] b.k # "fin" -> DZero
      [] b.m = <<>> -> IF a.m = <<>> THEN DNaN ELSE DInf(a.neg)
      [] a.m = <<>> -> DZero
      [] OTHER ->
           LET s == MantissaBits + 3 + BitLength(b.m) - BitLength(a.m)
               d == NatDivMod(NatShiftLeft(a.m, s), b.m)
           IN  RoundToDouble(a.neg # b.neg, d.q, a.e - s - b.e, d.r # <<>>)

DDiv(x, y) == Strict2(DDivValues, x, y)

\* Math.floor and Math.ceil
DFloorValues(a) ==
    IF a.k # "fin" \/ a.e >= 0 \/ a.m = <<>> THEN a
    ELSE LET int == NatShiftRight(a.m, 0 - a.e)
             whole == ~NatLowBits(a.m, 0 - a.e)
         IN  IF a.neg /\ ~whole THEN RoundToDouble(TRUE, NatAdd(int, <<1>>), 0, FALSE)
             ELSE RoundToDouble(a.neg, int, 0, FALSE)

DFloor(x) == Strict1(DFloorValues, x)
DCeil(a) == DNeg(DFloor(DNeg(a)))

\* the double of an integer, and of a number of thousandths (a decimal
\* numeral of at most three fractional digits)
DOfInt(n) ==
    IF n < 0 THEN RoundToDouble(TRUE, NatOf(0 - n), 0, FALSE)
    ELSE RoundToDouble(FALSE, NatOf(n), 0, FALSE)
DOfThousandths(v) == DDiv(DOfInt(v), DOfInt(10 * 100))

-----------------------------------------------------------------------------
(* The variables of the programs a specification does not run *)

IdleParse == text = "" /\ data = <<>> /\ series = <<>>
IdleCents == hz = NaN /\ tonicHz = NaN /\ cents = Null
IdleCard ==
    /\ pitchData = <<>> /\ startTime = "" /\ endTime = "" /\ tonic = ""
    /\ filtered = <<>> /\ rounded = FALSE
IdleMulti ==
    /\ numCards = "" /\ useSameFile = FALSE /\ graphsData = <<>>
    /\ sharedFileData = [pitchData |-> <<>>, fileName |-> ""]
    /\ reads = {} /\ alert = "" /\ error = ""
IdleTicks ==
    /\ min = DZero /\ max = DZero /\ count = 0
    /\ minCents = DZero /\ maxCents = DZero /\ minSpacing = DZero /\ height = DZero
    /\ allTicks = <<>> /\ ticks = <<>>

-----------------------------------------------------------------------------
(* Specification of parsePitchData: a text is chosen, then parsed *)

InitParse ==
    /\ pc = "text"
    /\ text \in Texts
    /\ data = <<>>
    /\ series = <<>>
    /\ IdleCents /\ IdleCard /\ IdleMulti /\ IdleTicks

Parse ==
    /\ pc = "text"
    /\ pc' = "parsed"
    /\ data' = ParseRows(text)
    /\ series' = parsePitchData(text)
    /\ UNCHANGED <<tickVars, text, centsVars, cardVars, multiVars>>

NextParse == Parse

SpecParse == InitParse /\ [][NextParse]_vars

-----------------------------------------------------------------------------
(* Claims about parsePitchData, checked under SpecParse *)

Rows(s) == {s[i] : i \in 1..Len(s)}

\* C1: the Series parsePitchData returns is sorted ascending by time:
\* S[i].time <= S[i+1].time for every adjacent pair of samples.
C1_SortedByTime ==
    pc = "parsed" =>
        \A i \in 1..(Len(series) - 1) : NumLe(series[i].x, series[i + 1].x)

\* the rows of the file were out of order, and the Series holds several
C1_Witness ==
    /\ pc = "parsed"
    /\ Len(series) >= 3
    /\ \E i \in 1..(Len(data) - 1) : NumGt(data[i].x, data[i + 1].x)

\* A token is numeric when it reads as a number: after an optional sign it
\* begins with a digit, with a point and a digit, or with Infinity.
NumericToken(tok) ==
    LET u == IF HasSign(tok) THEN Tail(tok) ELSE tok
    IN  \/ Len(u) >= 1 /\ IsDigit(Ch(u, 1))
        \/ Len(u) >= 2 /\ Ch(u, 1) = "." /\ IsDigit(Ch(u, 2))
        \/ Len(u) >= 8 /\ SubSeq(u, 1, 8) = "Infinity"

NonBlank(line) == \E i \in 1..Len(line) : Ch(line, i) \notin WhiteSpace

AcceptedLine(line) ==
    /\ NonBlank(line)
    /\ Len(SplitTokens(trim(line))) >= 2
    /\ NumericToken(SplitTokens(trim(line))[1])
    /\ NumericToken(SplitTokens(trim(line))[2])

RECURSIVE AcceptedRows(_)
AcceptedRows(lines) ==
    IF lines = <<>> THEN <<>>
    ELSE LET l == lines[Len(lines)]
             tokens == SplitTokens(trim(l))
         IN  AcceptedRows(SubSeq(lines, 1, Len(lines) - 1)) \o
                 (IF AcceptedLine(l)
                  THEN <<[x |-> parseFloat(tokens[1]), y |-> parseFloat(tokens[2])]>>
                  ELSE <<>>)

\* C7: parsePitchData accepts exactly the non-blank lines that have at least
\* 2 tokens (split on runs of spaces, commas or tabs) and whose first two
\* tokens are numeric, whatever follows them on the line; every other line
\* is dropped and the parse goes on with the next line.  The rows pushed
\* are those of the accepted lines, in the order of the file.
C7_AcceptsExactly == pc = "parsed" => data = AcceptedRows(SplitLines(text))

\* the five lines 'abc def', '0.1 200', '', '0.2', '0.3 210' have been
\* parsed to the two samples {0.1, 200} and {0.3, 210}
C7_Witness ==
    /\ pc = "parsed"
    /\ text = MalformedText
    /\ series = << [x |-> Fin(100), y |-> Fin(200000)],
                   [x |-> Fin(300), y |-> Fin(210000)] >>

NumberLines(lines) ==
    {i \in 1..Len(lines) :
        /\ Len(SplitTokens(trim(lines[i]))) >= 2
        /\ ~isNaN(parseFloat(SplitTokens(trim(lines[i]))[1]))
        /\ ~isNaN(parseFloat(SplitTokens(trim(lines[i]))[2]))}

RowsAt(s, t) == LET AtT(p) == p.x = t IN SelectSeq(s, AtT)

\* C9: the Series is a permutation of the accepted rows (none dropped or
\* merged, whatever its time or value), and rows of equal time keep their
\* input order: for every time, the rows at that time are the same
\* sequence before and after the sort.
C9_StablePermutation ==
    pc = "parsed" =>
        /\ Len(series) = Len(data)
        /\ \A t \in {p.x : p \in Rows(data) \cup Rows(series)} :
               RowsAt(series, t) = RowsAt(data, t)

\* two rows of the same time and different values, after a row that the
\* sort had to move, one of them with a value <= 0
C9_Witness ==
    /\ pc = "parsed"
    /\ data # series
    /\ \E i, j \in 1..Len(series) :
           /\ i < j
           /\ series[i].x = series[j].x
           /\ series[i].y # series[j].y
           /\ NumLe(series[j].y, Fin(0))

-----------------------------------------------------------------------------
(* hzToCents *)

\* the exponent of the prime p in n > 0
RECURSIVE PrimeExponent(_, _)
PrimeExponent(n, p) == IF n % p = 0 THEN 1 + PrimeExponent(n \div p, p) ELSE 0

\* 1200 * log2 of the primes of the frequency pools, in thousandths of a cent
CentsOfPrime(p) ==
    CASE p = 2 -> 1200000
      [] p = 3 -> 1901955
      [] p = 5 -> 2786314
      [] p = 11 -> 4151318

PoolPrimes == {2, 3, 5, 11}

RECURSIVE SumCents(_, _, _)
SumCents(a, b, P) ==
    IF P = {} THEN 0
    ELSE LET p == CHOOSE q \in P : TRUE
         IN  (PrimeExponent(a, p) - PrimeExponent(b, p)) * CentsOfPrime(p)
                 + SumCents(a, b, P \ {p})

\* 1200 * Math.log2(a / b).  For finite a, b of the same sign the value is
\* that of the ratio |a| / |b|, a product of powers of the pool primes,
\* rounded to a thousandth; it is exactly 0 for a = b and exactly 1200000
\* for a = 2 b.  A negative ratio has no logarithm (NaN), log2(0) is
\* -Infinity, log2(Infinity) is Infinity.
CentsOfRatio(a, b) ==
    LET abs(n) == IF n < 0 THEN 0 - n ELSE n
        positive(n) == n.k = "inf" \/ (n.k = "fin" /\ n.v > 0)
        negative(n) == n.k = "ninf" \/ (n.k = "fin" /\ n.v < 0)
    IN  CASE isNaN(a) \/ isNaN(b) -> NaN
          [] ~isFinite(a) /\ ~isFinite(b) -> NaN
          [] ~isFinite(a) -> IF positive(a) = ~negative(b) THEN PosInf ELSE NaN
          [] ~isFinite(b) -> NegInf
          [] b.v = 0 -> IF a.v > 0 THEN PosInf ELSE NaN
          [] a.v = 0 -> NegInf
          [] positive(a) # positive(b) -> NaN
          [] OTHER -> Fin(SumCents(abs(a.v), abs(b.v), PoolPrimes))

\* !x of a number: true for 0 and NaN
Falsy(a) == isNaN(a) \/ a = Fin(0)

\* hzToCents without the tests of the signs
hzToCentsNoSignTest(h, t) ==
    IF Falsy(h) \/ Falsy(t) THEN Null ELSE CentsOfRatio(h, t)

\* hzToCents with the ratio taken the other way round
hzToCentsInverted(h, t) ==
    IF Falsy(h) \/ Falsy(t) \/ NumLe(h, Fin(0)) \/ NumLe(t, Fin(0)) THEN Null
    ELSE CentsOfRatio(t, h)

hzToCents(h, t) ==
    IF Falsy(h) \/ Falsy(t) \/ NumLe(h, Fin(0)) \/ NumLe(t, Fin(0)) THEN Null
    ELSE CentsOfRatio(h, t)

\* the frequencies tried, in Hz
Frequencies ==
    { NaN, PosInf, NegInf, Fin(0), Fin(0 - 5000), Fin(100000), Fin(150000),
      Fin(200000), Fin(220000), Fin(440000), Fin(880000) }

-----------------------------------------------------------------------------
(* Specification of hzToCents: two arguments are chosen, then converted *)

InitCents ==
    /\ pc = "args"
    /\ hz \in Frequencies
    /\ tonicHz \in Frequencies
    /\ cents = Null
    /\ IdleParse /\ IdleCard /\ IdleMulti /\ IdleTicks

Convert ==
    /\ pc = "args"
    /\ pc' = "converted"
    /\ cents' = hzToCents(hz, tonicHz)
    /\ UNCHANGED <<tickVars, hz, tonicHz, parseVars, cardVars, multiVars>>

NextCents == Convert

SpecCents == InitCents /\ [][NextCents]_vars

\* C5 as stated: hzToCents returns null whenever hz <= 0, tonicHz <= 0, or
\* either argument is not finite (NaN or infinite).
C5_NullWhenNotFinite ==
    (/\ pc = "converted"
     /\ \/ NumLe(hz, Fin(0)) \/ NumLe(tonicHz, Fin(0))
        \/ ~isFinite(hz) \/ ~isFinite(tonicHz))
        => cents = Null

\* C5 amended: hzToCents returns null exactly when hz <= 0, tonicHz <= 0 or
\* an argument is NaN, so that hzToCents(0, 440), hzToCents(-5, 440) and
\* hzToCents(440, 0) are null; when an argument is +Infinity and the other
\* is positive the result is not null but a non-finite number.
C5_NullWhenNotPositive ==
    pc = "converted" =>
        /\ (cents = Null) <=>
               (NumLe(hz, Fin(0)) \/ NumLe(tonicHz, Fin(0))
                   \/ isNaN(hz) \/ isNaN(tonicHz))
        /\ (PosInf \in {hz, tonicHz} /\ NumGt(hz, Fin(0)) /\ NumGt(tonicHz, Fin(0)))
               => (cents \in {PosInf, NegInf, NaN})

\* hzToCents(-5, 440) has returned null
C5_Witness ==
    /\ pc = "converted"
    /\ hz = Fin(0 - 5000)
    /\ tonicHz = Fin(440000)
    /\ cents = Null

\* the cents of an octave, in thousandths
OctaveCents == 1200 * (10 * 100)

\* 2 * a
Twice(a) == IF isFinite(a) THEN Fin(2 * a.v) ELSE a

\* C16 as stated: for hz > 0 and tonicHz > 0 the result of hzToCents is 0
\* if and only if hz == tonicHz, and it is 1200 when hz == 2 * tonicHz
C16_ZeroIffTonic ==
    (pc = "converted" /\ NumGt(hz, Fin(0)) /\ NumGt(tonicHz, Fin(0))) =>
        /\ (cents = Fin(0)) <=> NumEq(hz, tonicHz)
        /\ NumEq(hz, Twice(tonicHz)) => cents = Fin(OctaveCents)

\* C16 amended: for finite hz > 0 and finite tonicHz > 0 the result of
\* hzToCents is 0 if and only if hz == tonicHz, it is 1200 when
\* hz == 2 * tonicHz, and doubling hz adds 1200 to it and halving hz
\* subtracts 1200 from it
C16_ZeroIffTonicFinite ==
    (/\ pc = "converted"
     /\ isFinite(hz) /\ isFinite(tonicHz)
     /\ NumGt(hz, Fin(0)) /\ NumGt(tonicHz, Fin(0))) =>
        /\ (cents = Fin(0)) <=> (hz = tonicHz)
        /\ hz.v = 2 * tonicHz.v => cents = Fin(OctaveCents)
        /\ isFinite(cents)
        /\ hzToCents(Fin(2 * hz.v), tonicHz) = Fin(cents.v + OctaveCents)
        /\ hz.v % 2 = 0 => hzToCents(Fin(hz.v \div 2), tonicHz) = Fin(cents.v - OctaveCents)

\* hzToCents(440, 220) has returned 1200
C16_Witness ==
    /\ pc = "converted"
    /\ hz = Fin(440000)
    /\ tonicHz = Fin(220000)
    /\ cents = Fin(OctaveCents)

-----------------------------------------------------------------------------
(* PitchGraphCard: the data a card displays *)

\* a prop that was never set (a card record created without the field)
Undefined == "<undefined>"

\* !s of a string prop
FalsyString(s) == s = "" \/ s = Undefined

\* Number(s) of a string prop
NumberOf(s) == IF s = Undefined THEN NaN ELSE Number(s)

\* array.filter(Keep): the elements that pass the test, in their order
Filter(arr, Keep(_)) == SelectSeq(arr, Keep)

\* the card without a tonic, the window test with s > e for s >= e
filteredDataHzStrict(pd, st, et) ==
    LET s == NumberOf(st)
        e == NumberOf(et)
        InWindow(p) == NumGe(p.x, s) /\ NumLe(p.x, e)
    IN  IF FalsyString(st) \/ FalsyString(et) THEN <<>>
        ELSE IF isNaN(s) \/ isNaN(e) \/ NumGt(s, e) THEN <<>>
        ELSE Filter(pd, InWindow)

\* the card without a tonic, the end of the window excluded
filteredDataHzOpenEnd(pd, st, et) ==
    LET s == NumberOf(st)
        e == NumberOf(et)
        InWindow(p) == NumGe(p.x, s) /\ NumLt(p.x, e)
    IN  IF FalsyString(st) \/ FalsyString(et) THEN <<>>
        ELSE IF isNaN(s) \/ isNaN(e) \/ NumGe(s, e) THEN <<>>
        ELSE Filter(pd, InWindow)

\* filteredData of the card without a tonic: the samples of the window, in Hz
filteredDataHz(pd, st, et) ==
    LET s == NumberOf(st)
        e == NumberOf(et)
        InWindow(p) == NumGe(p.x, s) /\ NumLe(p.x, e)
    IN  IF FalsyString(st) \/ FalsyString(et) THEN <<>>
        ELSE IF isNaN(s) \/ isNaN(e) \/ NumGe(s, e) THEN <<>>
        ELSE Filter(pd, InWindow)

\* the points {x, y: hzToCents(y, tonicHz)} of an array
ToCents(arr, t) == [i \in 1..Len(arr) |-> [x |-> arr[i].x, y |-> hzToCents(arr[i].y, t)]]

\* the card with a tonic, without the last filter on finite values
filteredDataNotNull(pd, st, et, tn) ==
    LET s == NumberOf(st)
        e == NumberOf(et)
        t == NumberOf(tn)
        InWindow(p) == NumGe(p.x, s) /\ NumLe(p.x, e) /\ NumGt(p.y, Fin(0))
        Defined(p) == p.y # Null
    IN  IF FalsyString(st) \/ FalsyString(et) \/ FalsyString(tn) THEN <<>>
        ELSE IF isNaN(s) \/ isNaN(e) \/ NumGe(s, e) \/ isNaN(t) \/ NumLe(t, Fin(0))
        THEN <<>>
        ELSE Filter(ToCents(Filter(pd, InWindow), t), Defined)

\* the card with a tonic, showing the samples in Hz when the tonic is not valid
filteredDataHzFallback(pd, st, et, tn) ==
    LET s == NumberOf(st)
        e == NumberOf(et)
        t == NumberOf(tn)
        InWindow(p) == NumGe(p.x, s) /\ NumLe(p.x, e) /\ NumGt(p.y, Fin(0))
        Defined(p) == p.y # Null /\ isFinite(p.y)
    IN  IF FalsyString(st) \/ FalsyString(et) THEN <<>>
        ELSE IF isNaN(s) \/ isNaN(e) \/ NumGe(s, e) THEN <<>>
        ELSE IF FalsyString(tn) \/ isNaN(t) \/ NumLe(t, Fin(0))
        THEN filteredDataHz(pd, st, et)
        ELSE Filter(ToCents(Filter(pd, InWindow), t), Defined)

\* filteredData of the card with a tonic: the samples of the window with a
\* positive value, in cents, those without a finite value in cents left out
filteredData(pd, st, et, tn) ==
    LET s == NumberOf(st)
        e == NumberOf(et)
        t == NumberOf(tn)
        InWindow(p) == NumGe(p.x, s) /\ NumLe(p.x, e) /\ NumGt(p.y, Fin(0))
        Defined(p) == p.y # Null /\ isFinite(p.y)
    IN  IF FalsyString(st) \/ FalsyString(et) \/ FalsyString(tn) THEN <<>>
        ELSE IF isNaN(s) \/ isNaN(e) \/ NumGe(s, e) \/ isNaN(t) \/ NumLe(t, Fin(0))
        THEN <<>>
        ELSE Filter(ToCents(Filter(pd, InWindow), t), Defined)

\* the files whose Series the cards are given
CardTexts ==
    { "0.00 100\n0.01 200\n0.02 150",
      "0 220\n0.01 0\n0.01 -5\n0.02 440\n0.03 1e999",
      "0.5 440",
      "-1 100\n0.015 150\n1e999 200" }

SeriesPool == {<<>>} \cup {parsePitchData(t) : t \in CardTexts}

\* the values of the start and end fields, and of the tonic field
TimeInputs == {"", Undefined, "abc", "0", "0.01", "0.015", "0.03", "-1e999", "1e999"}
TonicInputs == {"", Undefined, "abc", "0", "-100", "100", "220", "1e999"}

-----------------------------------------------------------------------------
(* Specification of the card: props are chosen, then the card derives its *)
(* data, as the card without a tonic or as the card with a tonic          *)

InitCard ==
    /\ pc = "props"
    /\ pitchData \in SeriesPool
    /\ startTime \in TimeInputs
    /\ endTime \in TimeInputs
    /\ tonic \in TonicInputs
    /\ filtered = <<>>
    /\ rounded = FALSE
    /\ IdleParse /\ IdleCents /\ IdleMulti /\ IdleTicks

RenderHz ==
    /\ pc = "props"
    /\ pc' = "hz"
    /\ filtered' = filteredDataHz(pitchData, startTime, endTime)
    /\ UNCHANGED <<tickVars, pitchData, startTime, endTime, tonic, rounded, parseVars, centsVars, multiVars>>

RenderCents ==
    /\ pc = "props"
    /\ pc' = "cents"
    /\ filtered' = filteredData(pitchData, startTime, endTime, tonic)
    /\ UNCHANGED <<tickVars, pitchData, startTime, endTime, tonic, rounded, parseVars, centsVars, multiVars>>

NextCard == RenderHz \/ RenderCents

SpecCard == InitCard /\ [][NextCard]_vars

-----------------------------------------------------------------------------
(* Claims about the data a card displays, checked under SpecCard *)

\* start and end are given and are numbers with start < end
ValidWindow ==
    /\ ~FalsyString(startTime) /\ ~FalsyString(endTime)
    /\ NumLt(NumberOf(startTime), NumberOf(endTime))

\* the tonic is given and is a number > 0
ValidTonic == ~FalsyString(tonic) /\ NumGt(NumberOf(tonic), Fin(0))

\* the indices of the samples of the window
WindowIndices ==
    {i \in 1..Len(pitchData) :
        /\ NumLe(NumberOf(startTime), pitchData[i].x)
        /\ NumLe(pitchData[i].x, NumberOf(endTime))}

\* the k-th smallest element of a set of indices
Kth(I, k) == CHOOSE j \in I : Cardinality({i \in I : i <= j}) = k

\* C2: for a valid window and no tonic, the displayed sequence is exactly
\* the samples with start <= time <= end, both bounds inclusive, in Series
\* order and with their Hz values, and it is a contiguous slice of the Series.
C2_InclusiveSlice ==
    (pc = "hz" /\ ValidWindow) =>
        /\ Len(filtered) = Cardinality(WindowIndices)
        /\ \A k \in 1..Len(filtered) : filtered[k] = pitchData[Kth(WindowIndices, k)]
        /\ \A i, j \in WindowIndices : i..j \subseteq WindowIndices

\* samples at 0.00, 0.01, 0.02 and the window [0, 0.015]: the first two
\* samples are displayed, with their values
C2_Witness ==
    /\ pc = "hz"
    /\ pitchData = << [x |-> Fin(0), y |-> Fin(100000)],
                      [x |-> Fin(10), y |-> Fin(200000)],
                      [x |-> Fin(20), y |-> Fin(150000)] >>
    /\ startTime = "0" /\ endTime = "0.015"
    /\ filtered = << [x |-> Fin(0), y |-> Fin(100000)],
                     [x |-> Fin(10), y |-> Fin(200000)] >>

\* C3 as stated: when start >= end, or a bound is absent, non-numeric or
\* not a finite number, the displayed sequence is empty.
C3_EmptyUnlessFinite ==
    (/\ pc \in {"hz", "cents"}
     /\ \/ FalsyString(startTime) \/ FalsyString(endTime)
        \/ ~isFinite(NumberOf(startTime)) \/ ~isFinite(NumberOf(endTime))
        \/ NumGe(NumberOf(startTime), NumberOf(endTime)))
        => filtered = <<>>

\* C3 amended: when start >= end, or a bound is absent or is not a number
\* (NaN), the displayed sequence is empty for every Series, with and
\* without a tonic; an infinite bound is a number, and a window with
\* start < end that has one is filtered like any other.
C3_EmptyUnlessNumbers ==
    /\ (/\ pc \in {"hz", "cents"}
        /\ \/ FalsyString(startTime) \/ FalsyString(endTime)
           \/ isNaN(NumberOf(startTime)) \/ isNaN(NumberOf(endTime))
           \/ NumGe(NumberOf(startTime), NumberOf(endTime)))
           => filtered = <<>>
    /\ (pc = "hz" /\ ValidWindow) => Len(filtered) = Cardinality(WindowIndices)

\* a card with samples at the start of a window whose end is its start,
\* and a valid tonic, displays nothing
C3_Witness ==
    /\ pc \in {"hz", "cents"}
    /\ startTime = "0.01" /\ endTime = "0.01"
    /\ ValidTonic
    /\ \E i \in 1..Len(pitchData) : pitchData[i].x = Fin(10) /\ NumGt(pitchData[i].y, Fin(0))
    /\ filtered = <<>>

\* the indices of the samples a card with a tonic displays
CentsIndices ==
    {i \in WindowIndices :
        /\ NumGt(pitchData[i].y, Fin(0))
        /\ hzToCents(pitchData[i].y, NumberOf(tonic)) # Null
        /\ isFinite(hzToCents(pitchData[i].y, NumberOf(tonic)))}

\* C4: with a valid window and a valid tonic the displayed sequence is the
\* samples of the window whose value is > 0, in Series order, each as
\* {time, cents}; a sample whose value in cents is null or not finite is
\* left out, so that every displayed value is a finite number.
C4_CentsOfPositive ==
    (pc = "cents" /\ ValidWindow /\ ValidTonic) =>
        /\ Len(filtered) = Cardinality(CentsIndices)
        /\ \A k \in 1..Len(filtered) :
               LET p == pitchData[Kth(CentsIndices, k)]
               IN  filtered[k] = [x |-> p.x, y |-> hzToCents(p.y, NumberOf(tonic))]
        /\ \A k \in 1..Len(filtered) : isFinite(filtered[k].y)

\* a window that holds samples of value 0, of negative value and of
\* infinite value beside positive ones: only the positive finite ones are
\* displayed, an octave apart
C4_Witness ==
    /\ pc = "cents"
    /\ ValidWindow /\ ValidTonic
    /\ \E i \in WindowIndices : pitchData[i].y = Fin(0)
    /\ \E i \in WindowIndices : pitchData[i].y = PosInf
    /\ Len(filtered) = 2
    /\ filtered[1].y = Fin(0)
    /\ filtered[2].y = Fin(1200000)

\* C11: when the tonic is absent, non-numeric or <= 0, the sequence the card
\* with a tonic displays is empty, for every Series and every window.
C11_EmptyUnlessTonic ==
    (/\ pc = "cents"
     /\ \/ FalsyString(tonic)
        \/ isNaN(NumberOf(tonic))
        \/ NumLe(NumberOf(tonic), Fin(0)))
        => filtered = <<>>

\* a valid window that holds a sample of positive value, and a negative
\* tonic: nothing is displayed
C11_Witness ==
    /\ pc = "cents"
    /\ ValidWindow
    /\ tonic = "-100"
    /\ \E i \in WindowIndices : NumGt(pitchData[i].y, Fin(0)) /\ isFinite(pitchData[i].y)
    /\ filtered = <<>>

-----------------------------------------------------------------------------
(* The cards that round an empty window to the nearest samples (d3.jsx and  *)
(* the canvas viewer): times are kept in milliseconds                       *)

\* t * 1000
Times1000(a) == IF isFinite(a) THEN Fin(a.v * (10 * 100)) ELSE a

\* the loop body of the parser of these viewers
ParseLineMs(line) ==
    LET tokens == SplitTokens(trim(line))
        t == parseFloat(tokens[1])
        p == parseFloat(tokens[2])
    IN  IF trim(line) = "" THEN <<>>
        ELSE IF Len(tokens) < 2 THEN <<>>
        ELSE IF isNaN(t) \/ isNaN(p) THEN <<>>
        ELSE <<[time |-> Times1000(t), pitch |-> p]>>

RECURSIVE ParseLinesMs(_)
ParseLinesMs(lines) ==
    IF lines = <<>> THEN <<>>
    ELSE ParseLinesMs(SubSeq(lines, 1, Len(lines) - 1)) \o ParseLineMs(lines[Len(lines)])

\* data.sort((a, b) => a.time - b.time), on the rows as sort sees them
SortByTimeMs(rows) ==
    LET sorted == SortByTime([i \in 1..Len(rows) |-> [x |-> rows[i].time, y |-> rows[i].pitch]])
    IN  [i \in 1..Len(rows) |-> [time |-> sorted[i].x, pitch |-> sorted[i].y]]

parsePitchDataMs(t) == SortByTimeMs(ParseLinesMs(SplitLines(t)))

\* Math.abs(a - b)
AbsDiff(a, b) ==
    LET d == NumSub(a, b)
    IN  CASE d.k = "fin" -> Fin(IF d.v < 0 THEN 0 - d.v ELSE d.v)
          [] d.k = "nan" -> NaN
          [] OTHER -> PosInf

\* the reduction with <= for <: a tie goes to the last index
RECURSIVE NearestIndexLast(_, _, _)
NearestIndexLast(times, t, n) ==
    IF n = 0 THEN 1
    ELSE LET prev == NearestIndexLast(times, t, n - 1)
         IN  IF NumLe(AbsDiff(times[n], t), AbsDiff(times[prev], t)) THEN n ELSE prev

\* times.reduce((prev, curr, idx) =>
\*     Math.abs(curr - t) < Math.abs(times[prev] - t) ? idx : prev, 0),
\* as an index from 1: the reduction over the first n times
RECURSIVE NearestIndex(_, _, _)
NearestIndex(times, t, n) ==
    IF n = 0 THEN 1
    ELSE LET prev == NearestIndex(times, t, n - 1)
         IN  IF NumLt(AbsDiff(times[n], t), AbsDiff(times[prev], t)) THEN n ELSE prev

Min(a, b) == IF a <= b THEN a ELSE b
Max(a, b) == IF a >= b THEN a ELSE b

\* the slice between the samples nearest to start and to end
NearestSlice(pd, start, end) ==
    LET times == [i \in 1..Len(pd) |-> pd[i].time]
        nearestStartIndex == NearestIndex(times, start, Len(pd))
        nearestEndIndex == NearestIndex(times, end, Len(pd))
        lowIndex == Min(nearestStartIndex, nearestEndIndex)
        highIndex == Max(nearestStartIndex, nearestEndIndex)
    IN  SubSeq(pd, lowIndex, highIndex)

\* the window is not drawn: a field is empty or not a number, or start >= end
InvalidRange(st, et) ==
    \/ st = "" \/ et = ""
    \/ isNaN(NumberOf(st)) \/ isNaN(NumberOf(et))
    \/ NumGe(NumberOf(st), NumberOf(et))

\* the samples drawn, rounding also a window that holds a single sample
SelectSamplesSingle(pd, st, et) ==
    LET start == NumberOf(st)
        end == NumberOf(et)
        InWindow(p) == NumGe(p.time, start) /\ NumLe(p.time, end)
        inside == Filter(pd, InWindow)
    IN  IF Len(pd) = 0 \/ InvalidRange(st, et)
        THEN [filtered |-> <<>>, rounded |-> FALSE]
        ELSE IF Len(inside) <= 1
        THEN [filtered |-> NearestSlice(pd, start, end), rounded |-> TRUE]
        ELSE [filtered |-> inside, rounded |-> FALSE]

\* the samples drawGraph (the effect of the d3 card) draws: those of the
\* window, or when there is none the slice between the nearest samples
SelectSamples(pd, st, et) ==
    LET start == NumberOf(st)
        end == NumberOf(et)
        InWindow(p) == NumGe(p.time, start) /\ NumLe(p.time, end)
        inside == Filter(pd, InWindow)
    IN  IF Len(pd) = 0 \/ InvalidRange(st, et)
        THEN [filtered |-> <<>>, rounded |-> FALSE]
        ELSE IF Len(inside) = 0
        THEN [filtered |-> NearestSlice(pd, start, end), rounded |-> TRUE]
        ELSE [filtered |-> inside, rounded |-> FALSE]

SnapTexts ==
    { "0 100\n0.01 200\n0.02 150",
      "0 220\n0.01 440",
      "0.01 440\n0.01 220\n0.03 0\n1e999 100" }

SnapSeries == {<<>>} \cup {parsePitchDataMs(t) : t \in SnapTexts}

\* the values of the start and end fields, read against milliseconds
SnapInputs == {"", "abc", "-1e999", "0", "4", "4.5", "10", "11", "14", "25", "1e999"}

-----------------------------------------------------------------------------
(* Specification of the rounding card: props are chosen, then drawn *)

InitSnap ==
    /\ pc = "props"
    /\ pitchData \in SnapSeries
    /\ startTime \in SnapInputs
    /\ endTime \in SnapInputs
    /\ tonic = ""
    /\ filtered = <<>>
    /\ rounded = FALSE
    /\ IdleParse /\ IdleCents /\ IdleMulti /\ IdleTicks

DrawGraph ==
    /\ pc = "props"
    /\ pc' = "drawn"
    /\ filtered' = SelectSamples(pitchData, startTime, endTime).filtered
    /\ rounded' = SelectSamples(pitchData, startTime, endTime).rounded
    /\ UNCHANGED <<tickVars, pitchData, startTime, endTime, tonic, parseVars, centsVars, multiVars>>

\* the effect of the d3 card draws the same samples; it keeps no flag of the
\* rounding and shows no notice
DrawD3 ==
    /\ pc = "props"
    /\ pc' = "drawnD3"
    /\ filtered' = SelectSamples(pitchData, startTime, endTime).filtered
    /\ rounded' = FALSE
    /\ UNCHANGED <<tickVars, pitchData, startTime, endTime, tonic, parseVars, centsVars, multiVars>>

NextSnap == DrawGraph \/ DrawD3

SpecSnap == InitSnap /\ [][NextSnap]_vars

-----------------------------------------------------------------------------
(* Claims about the rounding card, checked under SpecSnap *)

\* a is b with some elements left out
RECURSIVE IsSubSequence(_, _)
IsSubSequence(a, b) ==
    IF a = <<>> THEN TRUE
    ELSE IF b = <<>> THEN FALSE
    ELSE IF Head(a) = Head(b) THEN IsSubSequence(Tail(a), Tail(b))
    ELSE IsSubSequence(a, Tail(b))

\* the valid windows <<start, end>> that contain the window of the card
WiderWindows ==
    {w \in SnapInputs \X SnapInputs :
        /\ ~InvalidRange(w[1], w[2])
        /\ NumLe(NumberOf(w[1]), NumberOf(startTime))
        /\ NumLe(NumberOf(endTime), NumberOf(w[2]))}

\* some sample lies in the window of the card
SampleInWindow ==
    \E i \in 1..Len(pitchData) :
        /\ NumLe(NumberOf(startTime), pitchData[i].time)
        /\ NumLe(pitchData[i].time, NumberOf(endTime))

\* C10 as stated: with the fallback to the nearest samples, the sequence
\* selected for a valid window is a sub-sequence of the sequence selected
\* for every valid window that contains it.
C10_Monotone ==
    (pc = "drawn" /\ ~InvalidRange(startTime, endTime)) =>
        \A w \in WiderWindows :
            IsSubSequence(filtered, SelectSamples(pitchData, w[1], w[2]).filtered)

\* C10 amended: the sequence selected for a valid window that holds at
\* least one sample is a sub-sequence of the sequence selected for every
\* valid window that contains it; a window that holds no sample is rounded
\* to the nearest samples, which a wider window need not select.
C10_MonotoneInside ==
    (pc = "drawn" /\ ~InvalidRange(startTime, endTime) /\ SampleInWindow) =>
        /\ ~rounded
        /\ \A w \in WiderWindows :
               IsSubSequence(filtered, SelectSamples(pitchData, w[1], w[2]).filtered)

\* a window with a sample, inside a wider window that selects more samples
C10_Witness ==
    /\ pc = "drawn"
    /\ ~InvalidRange(startTime, endTime)
    /\ SampleInWindow
    /\ \E w \in WiderWindows :
           /\ w # <<startTime, endTime>>
           /\ Len(SelectSamples(pitchData, w[1], w[2]).filtered) > Len(filtered)

\* the earliest index of a sample whose time is nearest to t
EarliestNearest(t) ==
    CHOOSE i \in 1..Len(pitchData) :
        /\ \A j \in 1..Len(pitchData) :
               ~NumLt(AbsDiff(pitchData[j].time, t), AbsDiff(pitchData[i].time, t))
        /\ \A j \in 1..(i - 1) :
               NumLt(AbsDiff(pitchData[i].time, t), AbsDiff(pitchData[j].time, t))

\* C21: for start < end and a series that is not empty, when no sample
\* lies in [start, end] the samples drawn are the slice, not empty, between
\* the lower and the higher of the index of the sample nearest to start and
\* the index of the sample nearest to end, each found on its own, a tie
\* going to the earliest index; when a sample lies in the window the
\* samples of the window are drawn and nothing is rounded
C21_FallbackToNearest ==
    (pc = "drawn" /\ ~InvalidRange(startTime, endTime) /\ pitchData # <<>>) =>
        IF SampleInWindow
        THEN /\ ~rounded
             /\ filtered = SelectSeq(pitchData,
                                     LAMBDA p : /\ NumLe(NumberOf(startTime), p.time)
                                                /\ NumLe(p.time, NumberOf(endTime)))
        ELSE LET a == EarliestNearest(NumberOf(startTime))
                 b == EarliestNearest(NumberOf(endTime))
             IN  /\ rounded
                 /\ filtered # <<>>
                 /\ filtered = SubSeq(pitchData, Min(a, b), Max(a, b))

\* the window 11 to 25 ms holds no sample of 10, 10, 30, Infinity: the
\* first sample at 10 and the sample at 30 bound the slice drawn
C21_Witness ==
    /\ pc = "drawn"
    /\ startTime = "11" /\ endTime = "25"
    /\ Len(pitchData) = 4
    /\ rounded
    /\ filtered = SubSeq(pitchData, 1, 3)

\* the samples drawn came from the fallback to the nearest samples
Snapped == ~InvalidRange(startTime, endTime) /\ pitchData # <<>> /\ ~SampleInWindow

\* C27: in every variant with the fallback to the nearest samples, the
\* result is marked as snapped exactly when the fallback produced it
C27_MarkedIffSnapped ==
    pc \in {"drawn", "drawnD3"} => (rounded <=> Snapped)

-----------------------------------------------------------------------------
(* PitchGraphMulti: the cards, the card-count field, the uploads *)

\* the largest value the card-count field accepts
MaxNumCards == 20

UpperCase == "ABCDEFGHIJKLMNOPQRSTUVWXYZ"
LowerCase == "abcdefghijklmnopqrstuvwxyz"

\* a character as the flag i of a regular expression reads it
FoldCase(c) ==
    IF \E i \in 1..Len(UpperCase) : Ch(UpperCase, i) = c
    THEN Ch(LowerCase, CHOOSE i \in 1..Len(UpperCase) : Ch(UpperCase, i) = c)
    ELSE c

RECURSIVE FoldString(_)
FoldString(str) == IF str = "" THEN "" ELSE FoldCase(Ch(str, 1)) \o FoldString(Tail(str))

\* file.name.match(/\.(txt|csv)$/i)
MatchesExtension(name) ==
    /\ Len(name) >= 4
    /\ FoldString(SubSeq(name, Len(name) - 3, Len(name))) \in {".txt", ".csv"}

\* an element of graphsData: a card record, a hole of the array (an index
\* below length that was never written), or an element that is undefined
EmptyCard ==
    [kind |-> "card", pitchData |-> <<>>, startTime |-> "", endTime |-> "",
     tonic |-> "", fileName |-> ""]
Hole ==
    [kind |-> "hole", pitchData |-> <<>>, startTime |-> Undefined,
     endTime |-> Undefined, tonic |-> Undefined, fileName |-> Undefined]
UndefinedElement == [Hole EXCEPT !.kind = "undefined"]

\* {...g}: the fields of a card record, none for an element that is undefined
SpreadRecord(g) == IF g.kind = "card" THEN g ELSE [Hole EXCEPT !.kind = "card"]

\* [...prev]: the holes of the array become elements that are undefined
SpreadArray(prev) ==
    [i \in 1..Len(prev) |-> IF prev[i].kind = "hole" THEN UndefinedElement ELSE prev[i]]

\* updated[index] = g, index counted from 0: beyond the end the array grows,
\* holes filling the gap
SetElement(updated, index, g) ==
    IF index < Len(updated) THEN [updated EXCEPT ![index + 1] = g]
    ELSE updated \o [i \in 1..(index - Len(updated)) |-> Hole] \o <<g>>

\* updated[index], undefined beyond the end
ElementAt(updated, index) ==
    IF index < Len(updated) THEN updated[index + 1] ELSE UndefinedElement

\* the render of graphsData.map(({ pitchData, ... }, i) => ...): a hole is
\* skipped, an element that is undefined cannot be destructured
RenderError(g) ==
    IF \E i \in 1..Len(g) : g[i].kind = "undefined" THEN "TypeError" ELSE ""

\* the cards on the page, by index from 0
RenderedCards == {i \in 0..(Len(graphsData) - 1) : graphsData[i + 1].kind = "card"}

\* the files a user selects
Files ==
    { [name |-> "a.txt", text |-> "0.01 440\n0 220"],
      [name |-> "b.CSV", text |-> "abc def\n0.2"],
      [name |-> "d.pdf", text |-> "0 100"] }

\* the values typed in the card-count field
CardCounts ==
    {"", "0", "1.5", ToString(MaxNumCards + 1)} \cup {ToString(n) : n \in 1..MaxCards}

\* the values typed in the start, end and tonic fields of a card
StartInputs == {"", "0"}
EndInputs == {"", "0.02"}
TonicFieldInputs == {"", "220"}

InitMulti ==
    /\ pc = "page"
    /\ numCards = ""
    /\ useSameFile = FALSE
    /\ graphsData = <<>>
    /\ sharedFileData = [pitchData |-> <<>>, fileName |-> ""]
    /\ reads = {}
    /\ alert = ""
    /\ error = ""
    /\ IdleParse /\ IdleCents /\ IdleCard /\ IdleTicks

\* onChange of the card-count field, and the effect on [numCards]
NumCardsChange(val) ==
    /\ error = ""
    /\ val # numCards
    /\ val = "" \/ (NumGt(Number(val), Fin(0)) /\ NumLe(Number(val), Fin(MaxNumCards * (10 * 100))))
    /\ numCards' = val
    /\ alert' = ""
    /\ IF val # "" /\ NumGt(Number(val), Fin(0))
       THEN IF Number(val).v % (10 * 100) = 0
            THEN /\ graphsData' = [i \in 1..(Number(val).v \div (10 * 100)) |-> EmptyCard]
                 /\ error' = ""
            ELSE /\ graphsData' = graphsData
                 /\ error' = "RangeError"
       ELSE /\ graphsData' = <<>>
            /\ error' = ""
    /\ UNCHANGED <<tickVars, pc, useSameFile, sharedFileData, reads, parseVars, centsVars, cardVars>>

\* onChange of the checkbox
UseSameFileChange ==
    /\ error = ""
    /\ useSameFile' = ~useSameFile
    /\ alert' = ""
    /\ UNCHANGED <<tickVars, pc, numCards, graphsData, sharedFileData, reads, error,
                   parseVars, centsVars, cardVars>>

\* the place of a new read of the card index among the reads of that card
\* in flight: reads started later have a greater order
NextOrder(index) ==
    LET inFlight == {r.order : r \in {q \in reads : ~q.shared /\ q.index = index}}
    IN  IF inFlight = {} THEN 1
        ELSE 1 + CHOOSE n \in inFlight : \A k \in inFlight : k <= n

\* onFileChange(index, event), up to reader.readAsText(file), with at
\* most limit reads in flight and orders up to limit
FileChangeWithin(limit, index, file) ==
    /\ error = ""
    /\ ~useSameFile
    /\ index \in RenderedCards
    /\ IF ~MatchesExtension(file.name)
       THEN /\ alert' = "unsupported"
            /\ reads' = reads
       ELSE /\ Cardinality(reads) < limit
            /\ NextOrder(index) <= limit
            /\ alert' = ""
            /\ reads' = reads \cup {[shared |-> FALSE, index |-> index, file |-> file,
                                      order |-> NextOrder(index)]}
    /\ UNCHANGED <<tickVars, pc, numCards, useSameFile, graphsData, sharedFileData, error,
                   parseVars, centsVars, cardVars>>

FileChange(index, file) == FileChangeWithin(MaxReads, index, file)

\* onSharedFileChange(event), up to reader.readAsText(file)
SharedFileChange(file) ==
    /\ error = ""
    /\ useSameFile
    /\ IF ~MatchesExtension(file.name)
       THEN /\ alert' = "unsupported"
            /\ reads' = reads
       ELSE /\ Cardinality(reads) < MaxReads
            /\ alert' = ""
            /\ reads' = reads \cup {[shared |-> TRUE, index |-> 0, file |-> file,
                                      order |-> 0]}
    /\ UNCHANGED <<tickVars, pc, numCards, useSameFile, graphsData, sharedFileData, error,
                   parseVars, centsVars, cardVars>>

\* the array setGraphsData computes in reader.onload of onFileChange
LoadedInto(prev, index, rows, name) ==
    SetElement(SpreadArray(prev), index,
               [SpreadRecord(ElementAt(SpreadArray(prev), index))
                    EXCEPT !.pitchData = rows, !.fileName = name])

\* the array of onSharedFileChange when the cards are built anew
LoadedIntoAllFresh(prev, rows, name) ==
    [i \in 1..Len(prev) |->
        IF prev[i].kind = "hole" THEN prev[i]
        ELSE [EmptyCard EXCEPT !.pitchData = rows, !.fileName = name]]

\* the array setGraphsData computes in reader.onload of onSharedFileChange
LoadedIntoAll(prev, rows, name) ==
    [i \in 1..Len(prev) |->
        IF prev[i].kind = "hole" THEN prev[i]
        ELSE [SpreadRecord(prev[i]) EXCEPT !.pitchData = rows, !.fileName = name]]

\* reader.onload of onFileChange without the test of data.length
ReaderOnloadUnchecked(r) ==
    /\ r \in reads /\ ~r.shared
    /\ reads' = reads \ {r}
    /\ alert' = ""
    /\ graphsData' = LoadedInto(graphsData, r.index, parsePitchData(r.file.text), r.file.name)
    /\ error' = IF error = "" THEN RenderError(graphsData') ELSE error
    /\ UNCHANGED <<tickVars, pc, numCards, useSameFile, sharedFileData, parseVars, centsVars, cardVars>>

\* reader.onload of onFileChange: the read r of a card completes
ReaderOnload(r) ==
    /\ r \in reads /\ ~r.shared
    /\ reads' = reads \ {r}
    /\ IF parsePitchData(r.file.text) = <<>>
       THEN /\ alert' = "novalid"
            /\ UNCHANGED <<graphsData, error>>
       ELSE /\ alert' = ""
            /\ graphsData' = LoadedInto(graphsData, r.index, parsePitchData(r.file.text),
                                        r.file.name)
            /\ error' = IF error = "" THEN RenderError(graphsData') ELSE error
    /\ UNCHANGED <<tickVars, pc, numCards, useSameFile, sharedFileData, parseVars, centsVars, cardVars>>

\* reader.onload of onSharedFileChange: the read r of the shared file completes
SharedReaderOnload(r) ==
    /\ r \in reads /\ r.shared
    /\ reads' = reads \ {r}
    /\ IF parsePitchData(r.file.text) = <<>>
       THEN /\ alert' = "novalid"
            /\ UNCHANGED <<graphsData, sharedFileData, error>>
       ELSE /\ alert' = ""
            /\ sharedFileData' = [pitchData |-> parsePitchData(r.file.text),
                                  fileName |-> r.file.name]
            /\ graphsData' = LoadedIntoAll(graphsData, parsePitchData(r.file.text),
                                           r.file.name)
            /\ error' = IF error = "" THEN RenderError(graphsData') ELSE error
    /\ UNCHANGED <<tickVars, pc, numCards, useSameFile, parseVars, centsVars, cardVars>>

\* onStartTimeChange, onEndTimeChange, onTonicChange (index, value)
FieldChange(index, field, value) ==
    /\ error = ""
    /\ index \in RenderedCards
    /\ graphsData' =
           SetElement(SpreadArray(graphsData), index,
                      CASE field = "startTime" ->
                               [SpreadRecord(graphsData[index + 1]) EXCEPT !.startTime = value]
                        [] field = "endTime" ->
                               [SpreadRecord(graphsData[index + 1]) EXCEPT !.endTime = value]
                        [] field = "tonic" ->
                               [SpreadRecord(graphsData[index + 1]) EXCEPT !.tonic = value])
    /\ graphsData' # graphsData
    /\ alert' = ""
    /\ error' = RenderError(graphsData')
    /\ UNCHANGED <<tickVars, pc, numCards, useSameFile, sharedFileData, reads,
                   parseVars, centsVars, cardVars>>

NextMulti ==
    \/ \E val \in CardCounts : NumCardsChange(val)
    \/ UseSameFileChange
    \/ \E index \in 0..(MaxCards - 1), file \in Files : FileChange(index, file)
    \/ \E file \in Files : SharedFileChange(file)
    \/ \E r \in reads : ReaderOnload(r)
    \/ \E r \in reads : SharedReaderOnload(r)
    \/ \E index \in 0..(MaxCards - 1) :
           \/ \E value \in StartInputs : FieldChange(index, "startTime", value)
           \/ \E value \in EndInputs : FieldChange(index, "endTime", value)
           \/ \E value \in TonicFieldInputs : FieldChange(index, "tonic", value)

SpecMulti == InitMulti /\ [][NextMulti]_vars

\* the state an upload could change: the cards with their series, file
\* names, windows and tonics, the shared file, the render
StateOfCards == <<graphsData, sharedFileData, numCards, useSameFile, error>>

\* C6: an upload that is rejected changes no state. A file whose name does
\* not end in .txt or .csv is rejected before a read is started; a file
\* whose text parses to zero rows is rejected when its read completes; in
\* both steps every card, the shared file and the fields are unchanged.
C6_RejectedUploadChangesNothing ==
    [][ /\ (alert' = "unsupported") => UNCHANGED <<StateOfCards, reads>>
        /\ \A r \in reads' \ reads : MatchesExtension(r.file.name)
        /\ (alert' = "novalid") =>
               /\ UNCHANGED StateOfCards
               /\ \E r \in reads \ reads' : parsePitchData(r.file.text) = <<>>
        /\ \A r \in reads \ reads' :
               (parsePitchData(r.file.text) = <<>>) =>
                   (alert' = "novalid" /\ UNCHANGED StateOfCards) ]_vars

\* a file without a valid row was rejected after its read while a card
\* holds a series, a file name, a window and a tonic
C6_Witness ==
    /\ alert = "novalid"
    /\ \E i \in 1..Len(graphsData) :
           /\ graphsData[i].kind = "card"
           /\ graphsData[i].pitchData # <<>>
           /\ graphsData[i].fileName = "a.txt"
           /\ graphsData[i].startTime = "0"
           /\ graphsData[i].endTime = "0.02"
           /\ graphsData[i].tonic = "220"

-----------------------------------------------------------------------------
(* getYTicks *)

\* count of getYTicks when the caller gives none
DefaultCount == 5

\* getYTicks with the loop running while i < count
getYTicksShort(mn, mx, n) ==
    IF ~DIsFinite(mn) \/ ~DIsFinite(mx) \/ DEq(mn, mx) THEN <<>>
    ELSE [i \in 1..n |->
             DAdd(mn, DDiv(DMul(DSub(mx, mn), DOfInt(i - 1)), DOfInt(n)))]

\* getYTicks without the test min === max
getYTicksUnequalOnly(mn, mx, n) ==
    IF ~DIsFinite(mn) \/ ~DIsFinite(mx) THEN <<>>
    ELSE [i \in 1..(n + 1) |->
             DAdd(mn, DDiv(DMul(DSub(mx, mn), DOfInt(i - 1)), DOfInt(n)))]

\* getYTicks(min, max, count) for an integer count: the element of index
\* i + 1 is pushed by the pass i of the loop, i = 0, ..., count
getYTicks(mn, mx, n) ==
    IF ~DIsFinite(mn) \/ ~DIsFinite(mx) \/ DEq(mn, mx) THEN <<>>
    ELSE [i \in 1..(n + 1) |->
             DAdd(mn, DDiv(DMul(DSub(mx, mn), DOfInt(i - 1)), DOfInt(n)))]

\* 2^1023, a double whose difference with its opposite is not finite
DHuge == RoundToDouble(FALSE, <<1>>, MaxExponent - 1, FALSE)

\* the bounds and the counts tried
TickBounds ==
    { DNaN, DPosInf, DNegInf, DOfInt(0), DOfInt(1), DOfInt(2), DOfInt(5), DOfInt(100),
      DOfInt(0 - 50), DOfInt(1250), DOfThousandths(100), DHuge, DNeg(DHuge) }
TickCounts == {0 - 1, 0, 1, 3, DefaultCount}

InitYTicks ==
    /\ pc = "yArgs"
    /\ min \in TickBounds
    /\ max \in TickBounds
    /\ count \in TickCounts
    /\ minCents = DZero /\ maxCents = DZero /\ minSpacing = DZero /\ height = DZero
    /\ allTicks = <<>> /\ ticks = <<>>
    /\ IdleParse /\ IdleCents /\ IdleCard /\ IdleMulti

GetYTicks ==
    /\ pc = "yArgs"
    /\ pc' = "yTicks"
    /\ ticks' = getYTicks(min, max, count)
    /\ UNCHANGED <<min, max, count, minCents, maxCents, minSpacing, height, allTicks,
                   parseVars, centsVars, cardVars, multiVars>>

NextYTicks == GetYTicks

SpecYTicks == InitYTicks /\ [][NextYTicks]_vars

-----------------------------------------------------------------------------
(* Claims about getYTicks, checked under SpecYTicks.  Exact numbers are   *)
(* records [neg, m, e] of value (-1)^neg * m * 2^e with m of any size.     *)

XOf(a) == [neg |-> a.neg, m |-> a.m, e |-> a.e]
XNeg(a) == [a EXCEPT !.neg = ~a.neg]
XAddValues(a, b) ==
    LET e0 == IF a.e < b.e THEN a.e ELSE b.e
        A == NatShiftLeft(a.m, a.e - e0)
        B == NatShiftLeft(b.m, b.e - e0)
    IN  IF a.m = <<>> THEN b
        ELSE IF b.m = <<>> THEN a
        ELSE IF a.neg = b.neg THEN [neg |-> a.neg, m |-> NatAdd(A, B), e |-> e0]
        ELSE IF NatCmp(A, B) >= 0 THEN [neg |-> a.neg, m |-> NatSub(A, B), e |-> e0]
        ELSE [neg |-> b.neg, m |-> NatSub(B, A), e |-> e0]
XAdd(x, y) == Strict2(XAddValues, x, y)
XSub(x, y) == XAdd(x, XNeg(y))
XTimes(x, n) == Strict1(LAMBDA a : [a EXCEPT !.m = NatMul(a.m, NatOf(n))], x)
XIsZero(x) == x.m = <<>>
\* |x| <= |y|
XAbsLe(x, y) ==
    Strict2(LAMBDA a, b : XIsZero(a) \/ XSub([a EXCEPT !.neg = FALSE],
                                             [b EXCEPT !.neg = FALSE]).neg
                              \/ XIsZero(XSub([a EXCEPT !.neg = FALSE],
                                              [b EXCEPT !.neg = FALSE])), x, y)

\* the case of C12: finite bounds that differ, at least one interval
TickCase ==
    /\ pc = "yTicks"
    /\ DIsFinite(min) /\ DIsFinite(max) /\ ~DEq(min, max)
    /\ count >= 1

\* the ticks are in order from min to max
TicksInOrder ==
    \A i \in 1..(Len(ticks) - 1) :
        IF DLt(min, max) THEN DLe(ticks[i], ticks[i + 1]) ELSE DGe(ticks[i], ticks[i + 1])

\* C12 as stated: for finite min != max and count >= 1, getYTicks returns
\* exactly count + 1 values in order, the first equal to min and the last
\* equal to max, every consecutive difference equal to (max - min) / count.
C12_EvenlySpaced ==
    TickCase =>
        /\ Len(ticks) = count + 1
        /\ TicksInOrder
        /\ ticks[1] = min
        /\ ticks[count + 1] = max
        /\ \A i \in 1..count :
               /\ DIsFinite(ticks[i]) /\ DIsFinite(ticks[i + 1])
               /\ XIsZero(XSub(XTimes(XSub(XOf(ticks[i + 1]), XOf(ticks[i])), count),
                               XSub(XOf(max), XOf(min))))

\* (max - min) * count is finite: no product of the loop overflows
NoOverflow == DIsFinite(DMul(DSub(max, min), DOfInt(count)))

\* the larger of |min| and |max|
LargerBound == IF DLt(DAbs(min), DAbs(max)) THEN DAbs(max) ELSE DAbs(min)

\* the value at index i is within 8 units in the last place of the larger
\* bound of min + (max - min) * (i - 1) / count
NearExact(i) ==
    /\ DIsFinite(ticks[i])
    /\ XAbsLe(XSub(XTimes(XOf(ticks[i]), count),
                   XAdd(XTimes(XOf(min), count), XTimes(XSub(XOf(max), XOf(min)), i - 1))),
              [neg |-> FALSE, m |-> NatOf(8 * count), e |-> LargerBound.e])

\* C12 amended: for finite min != max and an integer count >= 1, getYTicks
\* returns exactly count + 1 values; when (max - min) * count does not
\* overflow they are in order, the first is min and each is the rounded
\* value of min + (max - min) * i / count, within 8 units in the last place
\* of the larger bound of the exact one, so that the last is max and the
\* differences are (max - min) / count up to rounding;
\* getYTicks(0, 100, 5) is exactly [0, 20, 40, 60, 80, 100].
C12_EvenlySpacedRounded ==
    TickCase =>
        /\ Len(ticks) = count + 1
        /\ NoOverflow =>
               /\ TicksInOrder
               /\ ticks[1] = min
               /\ \A i \in 1..(count + 1) : NearExact(i)
        /\ (min = DOfInt(0) /\ max = DOfInt(100) /\ count = DefaultCount) =>
               ticks = << DOfInt(0), DOfInt(20), DOfInt(40), DOfInt(60), DOfInt(80),
                          DOfInt(100) >>

\* getYTicks(0, 0.1, 3) has returned four values, the last not 0.1
C12_Witness ==
    /\ pc = "yTicks"
    /\ min = DOfInt(0) /\ max = DOfThousandths(100) /\ count = 3
    /\ Len(ticks) = 4
    /\ ticks[1] = min
    /\ ticks[4] # max
    /\ NearExact(4)

\* C13: getYTicks returns the empty sequence whenever min == max or a
\* bound is not finite, for every count.
C13_EmptyWhenDegenerate ==
    (pc = "yTicks" /\ (DEq(min, max) \/ ~DIsFinite(min) \/ ~DIsFinite(max)))
        => ticks = <<>>

\* getYTicks(5, 5, 5) has returned the empty sequence
C13_Witness ==
    /\ pc = "yTicks"
    /\ min = DOfInt(5) /\ max = DOfInt(5) /\ count = DefaultCount
    /\ ticks = <<>>

-----------------------------------------------------------------------------
(* getSwaraTicks: the swara positions of the octaves that meet the range,   *)
(* thinned so that labels keep a distance on the axis                       *)

\* the swaras and their cents above the tonic; the sharp and flat signs of
\* the names are written # and b
SWARA_LABELS ==
    << [name |-> "Sa", cents |-> 0], [name |-> "Re", cents |-> 204],
       [name |-> "Re#/Gab", cents |-> 316], [name |-> "Ga", cents |-> 386],
       [name |-> "Ma", cents |-> 498], [name |-> "Ma#/Pab", cents |-> 610],
       [name |-> "Pa", cents |-> 702], [name |-> "Dha", cents |-> 906],
       [name |-> "Dha#/Nib", cents |-> 1018], [name |-> "Ni", cents |-> 1088],
       [name |-> "Sa'", cents |-> 1200] >>

CentsPerOctave == 1200
LabelMargin == 50
DefaultMinSpacing == 60
DefaultHeight == 280

\* String.prototype.repeat for a count >= 0
RECURSIVE Repeat(_, _)
Repeat(s, n) == IF n <= 0 THEN "" ELSE s \o Repeat(s, n - 1)

\* the integer that a double of integral value holds
RECURSIVE IntOfNat(_)
IntOfNat(a) == IF a = <<>> THEN 0 ELSE Head(a) + Base * IntOfNat(Tail(a))
DToInt(d) ==
    LET n == IntOfNat(IF d.e >= 0 THEN NatShiftLeft(d.m, d.e)
                      ELSE NatShiftRight(d.m, 0 - d.e))
    IN  IF d.neg THEN 0 - n ELSE n

\* the label of a swara in an octave
LabelOf(swara, octave) ==
    swara.name \o (IF octave > 0 THEN Repeat("'", octave) ELSE "")
               \o (IF octave < 0 THEN Repeat(",", 0 - octave) ELSE "")

\* the ticks of one pass with a margin of 100 cents
TicksOfOctaveWide(octave, mn, mx) ==
    LET lo == DSub(mn, DOfInt(2 * LabelMargin))
        hi == DAdd(mx, DOfInt(2 * LabelMargin))
        all == [i \in 1..Len(SWARA_LABELS) |->
                   [value |-> DOfInt(SWARA_LABELS[i].cents + octave * CentsPerOctave),
                    label |-> LabelOf(SWARA_LABELS[i], octave)]]
    IN  SelectSeq(all, LAMBDA t : DGe(t.value, lo) /\ DLe(t.value, hi))

\* the ticks that one pass of the loop over the octaves pushes
TicksOfOctave(octave, mn, mx) ==
    LET lo == DSub(mn, DOfInt(LabelMargin))
        hi == DAdd(mx, DOfInt(LabelMargin))
        all == [i \in 1..Len(SWARA_LABELS) |->
                   [value |-> DOfInt(SWARA_LABELS[i].cents + octave * CentsPerOctave),
                    label |-> LabelOf(SWARA_LABELS[i], octave)]]
    IN  SelectSeq(all, LAMBDA t : DGe(t.value, lo) /\ DLe(t.value, hi))

RECURSIVE TicksFrom(_, _, _, _)
TicksFrom(octave, maxOctave, mn, mx) ==
    IF octave > maxOctave THEN <<>>
    ELSE TicksOfOctave(octave, mn, mx) \o TicksFrom(octave + 1, maxOctave, mn, mx)

\* whether the loop over the octaves ends: it makes no pass when a bound of
\* the octaves is NaN or the first octave is above the last; octave++
\* leaves an infinite octave as it is, and never reaches an infinite last
\* octave
LoopEnds(mn, mx) ==
    Strict2(LAMBDA minOctave, maxOctave :
                \/ DIsNaN(minOctave) \/ DIsNaN(maxOctave)
                \/ DGt(minOctave, maxOctave)
                \/ DIsFinite(minOctave) /\ DIsFinite(maxOctave),
            DFloor(DDiv(mn, DOfInt(CentsPerOctave))),
            DCeil(DDiv(mx, DOfInt(CentsPerOctave))))

\* allTicks with the first octave rounded up
CandidateTicksCeil(mn, mx) ==
    Strict2(LAMBDA minOctave, maxOctave :
                IF DIsNaN(minOctave) \/ DIsNaN(maxOctave) \/ DGt(minOctave, maxOctave)
                THEN <<>>
                ELSE TicksFrom(DToInt(minOctave), DToInt(maxOctave), mn, mx),
            DCeil(DDiv(mn, DOfInt(CentsPerOctave))),
            DCeil(DDiv(mx, DOfInt(CentsPerOctave))))

\* allTicks of getSwaraTicks when the loop over the octaves ends
CandidateTicks(mn, mx) ==
    Strict2(LAMBDA minOctave, maxOctave :
                IF DIsNaN(minOctave) \/ DIsNaN(maxOctave) \/ DGt(minOctave, maxOctave)
                THEN <<>>
                ELSE TicksFrom(DToInt(minOctave), DToInt(maxOctave), mn, mx),
            DFloor(DDiv(mn, DOfInt(CentsPerOctave))),
            DCeil(DDiv(mx, DOfInt(CentsPerOctave))))

\* yPx of a value: height - ((value - minCents) / (maxCents - minCents || 1)) * height
PixelOf(value, mn, mx, h) ==
    LET span == DSub(mx, mn)
        divisor == IF DIsNaN(span) \/ DIsZero(span) THEN DOfInt(1) ELSE span
    IN  DSub(h, DMul(DDiv(DSub(value, mn), divisor), h))

\* yPx of every candidate, in the order of the candidates
PixelsOf(all, mn, mx, h) == [i \in 1..Len(all) |-> PixelOf(all[i].value, mn, mx, h)]

\* the thinning without any test: every candidate is returned
Unthinned(all, ys, i, lastY, m) == SubSeq(all, i, Len(all))

\* the second loop of getSwaraTicks from the candidate i on, ys[i] being
\* the yPx of the candidate i; lastY is <<>> for null and <<y>> for a
\* pixel position
RECURSIVE Thinned(_, _, _, _, _)
Thinned(all, ys, i, lastY, m) ==
    IF i > Len(all) THEN <<>>
    ELSE IF lastY = <<>> \/ DGe(DAbs(DSub(ys[i], lastY[1])), m)
         THEN <<all[i]>> \o Thinned(all, ys, i + 1, <<ys[i]>>, m)
         ELSE Thinned(all, ys, i + 1, lastY, m)

getSwaraTicks(mn, mx, m, h) ==
    Strict1(LAMBDA all : Strict1(LAMBDA ys : Thinned(all, ys, 1, <<>>, m),
                                 PixelsOf(all, mn, mx, h)),
            CandidateTicks(mn, mx))

\* the arguments tried
SwaraMins ==
    { DNaN, DNegInf, DOfInt(0 - 1200), DOfInt(0 - 50), DOfInt(0), DOfThousandths(100500),
      DOfInt(351), DOfInt(702) }
SwaraMaxs ==
    { DOfInt(0), DOfInt(351), DOfInt(702), DOfInt(1200), DOfThousandths(1250250),
      DOfInt(1300), DPosInf }
Spacings == { DNaN, DOfInt(0), DOfInt(40), DOfInt(DefaultMinSpacing) }
Heights == { DOfInt(220), DOfInt(DefaultHeight) }

InitSwaraTicks ==
    /\ pc = "swaraArgs"
    /\ minCents \in SwaraMins
    /\ maxCents \in SwaraMaxs
    /\ minSpacing \in Spacings
    /\ height \in Heights
    /\ min = DZero /\ max = DZero /\ count = 0
    /\ allTicks = <<>> /\ ticks = <<>>
    /\ IdleParse /\ IdleCents /\ IdleCard /\ IdleMulti

\* a call of getSwaraTicks whose loop over the octaves ends: it returns
GetSwaraTicks ==
    /\ pc = "swaraArgs"
    /\ LoopEnds(minCents, maxCents)
    /\ pc' = "swaraTicks"
    /\ allTicks' = CandidateTicks(minCents, maxCents)
    /\ ticks' = getSwaraTicks(minCents, maxCents, minSpacing, height)
    /\ UNCHANGED <<min, max, count, minCents, maxCents, minSpacing, height,
                   parseVars, centsVars, cardVars, multiVars>>

\* a call of getSwaraTicks whose loop over the octaves does not end: it
\* never returns
GetSwaraTicksForever ==
    /\ pc = "swaraArgs"
    /\ ~LoopEnds(minCents, maxCents)
    /\ pc' = "swaraLoop"
    /\ UNCHANGED <<min, max, count, minCents, maxCents, minSpacing, height, allTicks,
                   ticks, parseVars, centsVars, cardVars, multiVars>>

NextSwaraTicks == GetSwaraTicks \/ GetSwaraTicksForever

SpecSwaraTicks == InitSwaraTicks /\ [][NextSwaraTicks]_vars

-----------------------------------------------------------------------------
(* Claims about getSwaraTicks, checked under SpecSwaraTicks *)

\* the product of two exact numbers
XMul(x, y) ==
    Strict2(LAMBDA a, b : [neg |-> a.neg # b.neg, m |-> NatMul(a.m, b.m), e |-> a.e + b.e],
            x, y)

\* the divisor of the map onto the axis: maxCents - minCents, or 1 when the
\* range is a single value
ExactSpan ==
    IF DEq(minCents, maxCents) THEN XOf(DOfInt(1)) ELSE XSub(XOf(maxCents), XOf(minCents))

\* the distance on the axis of the values a and b, computed without
\* rounding, is at least minSpacing: height * |a - b| >= minSpacing * |span|
ExactlySpaced(a, b) ==
    XAbsLe(XMul(XOf(minSpacing), ExactSpan), XMul(XOf(height), XSub(XOf(a), XOf(b))))

\* C14: in the result of getSwaraTicks the first candidate is kept, the
\* kept ticks are a sub-sequence of the candidates, and two consecutive
\* kept ticks are at a distance of at least minSpacing on the axis, under
\* the linear map of [minCents, maxCents] onto [height, 0]
C14_ThinnedSpacing ==
    pc = "swaraTicks" =>
        /\ allTicks # <<>> => ticks # <<>> /\ ticks[1] = allTicks[1]
        /\ IsSubSequence(ticks, allTicks)
        /\ \A i \in 1..(Len(ticks) - 1) :
               /\ DGe(DAbs(DSub(PixelOf(ticks[i + 1].value, minCents, maxCents, height),
                                PixelOf(ticks[i].value, minCents, maxCents, height))),
                      minSpacing)
               /\ ExactlySpaced(ticks[i + 1].value, ticks[i].value)

\* some candidates were dropped and more than two were kept, over a range
\* of more than an octave
C14_Witness ==
    /\ pc = "swaraTicks"
    /\ Len(ticks) > 2
    /\ Len(ticks) < Len(allTicks)
    /\ DEq(minSpacing, DOfInt(40))
    /\ DEq(minCents, DOfInt(0 - 1200)) /\ DEq(maxCents, DOfInt(1300))

-----------------------------------------------------------------------------
(* The grid of six cards of Chrt.jsx: a card has no Series (pitchData is    *)
(* null) until a file is loaded into it.  graphsData holds the cards,       *)
(* reads the reads in flight, error what the last render threw.             *)

\* the cards of the grid
GridCards == 6

\* an element of the initial graphsData; hasData is FALSE while pitchData
\* is null
NullCard ==
    [pitchData |-> <<>>, hasData |-> FALSE, startTime |-> "", endTime |-> "", fileName |-> ""]

\* Math.floor and Math.ceil of a time, and String of the result
FloorOf(a) == IF isFinite(a) THEN Fin((a.v \div (10 * 100)) * (10 * 100)) ELSE a
CeilOf(a) == IF isFinite(a) THEN Fin(0 - ((0 - a.v) \div (10 * 100)) * (10 * 100)) ELSE a
StringOfWhole(a) ==
    CASE a.k = "fin" -> ToString(a.v \div (10 * 100))
      [] a.k = "nan" -> "NaN"
      [] a.k = "inf" -> "Infinity"
      [] OTHER -> "-Infinity"

\* the card whose filteredData reaches pitchData.filter with pitchData
\* null, which throws
FilterThrows(card) ==
    /\ card.startTime # "" /\ card.endTime # ""
    /\ ~(isNaN(Number(card.startTime)) \/ isNaN(Number(card.endTime))
         \/ NumGe(Number(card.startTime), Number(card.endTime)))
    /\ ~card.hasData

\* filteredData of a card that does not throw
GridFilteredData(card) ==
    LET s == Number(card.startTime)
        e == Number(card.endTime)
        InWindow(p) == NumGe(p.time, s) /\ NumLe(p.time, e)
    IN  IF card.startTime = "" \/ card.endTime = "" THEN <<>>
        ELSE IF isNaN(s) \/ isNaN(e) \/ NumGe(s, e) THEN <<>>
        ELSE Filter(card.pitchData, InWindow)

\* the render of the grid: every card computes its filteredData
GridRenderError(g) ==
    IF \E i \in 1..Len(g) : FilterThrows(g[i]) THEN "TypeError" ELSE ""

\* the cards a user acts on, by index from 0
GridIndices == 0..(MaxCards - 1)

InitGrid ==
    /\ pc = "grid"
    /\ graphsData = [i \in 1..GridCards |-> NullCard]
    /\ reads = {}
    /\ alert = ""
    /\ error = ""
    /\ numCards = "" /\ useSameFile = FALSE
    /\ sharedFileData = [pitchData |-> <<>>, fileName |-> ""]
    /\ IdleParse /\ IdleCents /\ IdleCard /\ IdleTicks

\* onFileChange(index, event), up to reader.readAsText(file)
GridFileChange(index, file) ==
    /\ error = ""
    /\ IF ~MatchesExtension(file.name)
       THEN /\ alert' = "unsupported"
            /\ reads' = reads
       ELSE /\ Cardinality(reads) < MaxReads
            /\ alert' = ""
            /\ reads' = reads \cup {[shared |-> FALSE, index |-> index, file |-> file]}
    /\ UNCHANGED <<tickVars, pc, numCards, useSameFile, graphsData, sharedFileData, error,
                   parseVars, centsVars, cardVars>>

\* the card that reader.onload stores
LoadedCard(rows, name) ==
    [pitchData |-> rows, hasData |-> TRUE,
     startTime |-> StringOfWhole(FloorOf(rows[1].time)),
     endTime |-> StringOfWhole(CeilOf(rows[Len(rows)].time)),
     fileName |-> name]

\* reader.onload: the read r completes
GridReaderOnload(r) ==
    /\ error = ""
    /\ r \in reads
    /\ reads' = reads \ {r}
    /\ LET rows == parsePitchDataMs(r.file.text)
       IN  IF rows = <<>>
           THEN /\ alert' = "no valid pitch data"
                /\ UNCHANGED <<graphsData, error>>
           ELSE /\ alert' = ""
                /\ graphsData' = [graphsData EXCEPT ![r.index + 1] = LoadedCard(rows, r.file.name)]
                /\ error' = GridRenderError(graphsData')
    /\ UNCHANGED <<tickVars, pc, numCards, useSameFile, sharedFileData, parseVars, centsVars, cardVars>>

\* onStartTimeChange(index, value)
GridStartTimeChange(index, value) ==
    /\ error = ""
    /\ graphsData[index + 1].startTime # value
    /\ graphsData' = [graphsData EXCEPT ![index + 1].startTime = value]
    /\ error' = GridRenderError(graphsData')
    /\ alert' = ""
    /\ UNCHANGED <<tickVars, pc, numCards, useSameFile, sharedFileData, reads,
                   parseVars, centsVars, cardVars>>

\* onEndTimeChange(index, value)
GridEndTimeChange(index, value) ==
    /\ error = ""
    /\ graphsData[index + 1].endTime # value
    /\ graphsData' = [graphsData EXCEPT ![index + 1].endTime = value]
    /\ error' = GridRenderError(graphsData')
    /\ alert' = ""
    /\ UNCHANGED <<tickVars, pc, numCards, useSameFile, sharedFileData, reads,
                   parseVars, centsVars, cardVars>>

\* the files selected: those of Files and a file of one row, at 2 ms
GridFiles == Files \cup { [name |-> "e.txt", text |-> "0.002 330"] }

NextGrid ==
    \/ \E index \in GridIndices, file \in GridFiles : GridFileChange(index, file)
    \/ \E r \in reads : GridReaderOnload(r)
    \/ \E index \in GridIndices, value \in StartInputs : GridStartTimeChange(index, value)
    \/ \E index \in GridIndices, value \in EndInputs : GridEndTimeChange(index, value)

SpecGrid == InitGrid /\ [][NextGrid]_vars

-----------------------------------------------------------------------------
(* Claims about the grid of Chrt.jsx, checked under SpecGrid *)

\* C15: whatever the user does from the initial state (editing the start
\* time, editing the end time, selecting files, in any order), deriving the
\* displayed data never throws, and a card that has no Series shows nothing,
\* also for a valid window entered before any upload
C15_DisplayNeverThrows ==
    pc = "grid" =>
        /\ error = ""
        /\ \A i \in 1..Len(graphsData) :
               ~graphsData[i].hasData => ~FilterThrows(graphsData[i])

\* C30: after every upload that succeeds the window preset from the first
\* and the last sample is valid (start < end) and holds every sample: the
\* card displays the whole series
C30_PresetWindowShowsAll ==
    [][ \A r \in reads \ reads' :
            parsePitchDataMs(r.file.text) # <<>>
                => /\ NumLt(Number(graphsData'[r.index + 1].startTime),
                            Number(graphsData'[r.index + 1].endTime))
                   /\ GridFilteredData(graphsData'[r.index + 1])
                          = graphsData'[r.index + 1].pitchData ]_vars

-----------------------------------------------------------------------------
(* Claims about the number of cards, checked under SpecMulti *)

\* the number that the text of the card-count field stands for, in cards
EnteredCards == IF numCards = "" THEN Fin(0) ELSE Number(numCards)

\* C17: the number of cards never exceeds 20 and always equals the number
\* entered; the field holds the empty value or a value v with 0 < v <= 20,
\* and every accepted value rebuilds the array to v fresh cards without
\* failing
C17_CardCountAsEntered ==
    pc = "page" =>
        /\ numCards = "" \/ (NumGt(Number(numCards), Fin(0))
                                /\ NumLe(Number(numCards), Fin(MaxNumCards * (10 * 100))))
        /\ error # "RangeError"
        /\ Len(graphsData) <= MaxNumCards
        /\ EnteredCards = Fin(Len(graphsData) * (10 * 100))

-----------------------------------------------------------------------------
(* Claims about the shared file, checked under SpecMulti *)

\* the props pitchData and fileName that the render of the page passes to
\* the card g
PropsOfCard(g, same, shared) ==
    [pitchData |-> IF same THEN shared.pitchData ELSE g.pitchData,
     fileName |-> IF same THEN shared.fileName ELSE g.fileName,
     startTime |-> g.startTime, endTime |-> g.endTime, tonic |-> g.tonic]

\* C18: while the same file is used for all cards, every card, also one
\* created afterwards by a change of the number of cards, draws the shared
\* series and shows the shared file name; a shared upload that succeeds
\* replaces the series of all cards at once and leaves the start time, the
\* end time and the tonic of each card unchanged
C18_SharedSeriesForAll ==
    [][ /\ (useSameFile' /\ error' = "") =>
               \A i \in 1..Len(graphsData') :
                   graphsData'[i].kind = "card" =>
                       /\ PropsOfCard(graphsData'[i], useSameFile', sharedFileData').pitchData
                              = sharedFileData'.pitchData
                       /\ PropsOfCard(graphsData'[i], useSameFile', sharedFileData').fileName
                              = sharedFileData'.fileName
        /\ \A r \in reads \ reads' :
               (r.shared /\ parsePitchData(r.file.text) # <<>>) =>
                   /\ sharedFileData' = [pitchData |-> parsePitchData(r.file.text),
                                         fileName |-> r.file.name]
                   /\ Len(graphsData') = Len(graphsData)
                   /\ \A i \in 1..Len(graphsData) :
                          graphsData[i].kind = "card" =>
                              /\ graphsData'[i].pitchData = sharedFileData'.pitchData
                              /\ graphsData'[i].fileName = sharedFileData'.fileName
                              /\ graphsData'[i].startTime = graphsData[i].startTime
                              /\ graphsData'[i].endTime = graphsData[i].endTime
                              /\ graphsData'[i].tonic = graphsData[i].tonic
        /\ (useSameFile /\ useSameFile' /\ numCards' # numCards) =>
               UNCHANGED sharedFileData
      ]_vars

\* the shared file a.txt is loaded and the cards draw it, among them a card
\* whose start time, end time and tonic were entered
C18_Witness ==
    /\ useSameFile
    /\ error = ""
    /\ sharedFileData.fileName = "a.txt"
    /\ sharedFileData.pitchData # <<>>
    /\ Len(graphsData) = MaxCards
    /\ \A i \in 1..Len(graphsData) :
           /\ graphsData[i].kind = "card"
           /\ graphsData[i].pitchData = sharedFileData.pitchData
    /\ \E i \in 1..Len(graphsData) :
           /\ graphsData[i].startTime = "0"
           /\ graphsData[i].endTime = "0.02"
           /\ graphsData[i].tonic = "220"

-----------------------------------------------------------------------------
(* A card of Victory.jsx: the file of the card is read and parsed, the      *)
(* start and end fields are edited, and the card filters its series         *)

\* the body of the loop of parsePitchData over the lines
VictoryParseLine(line) ==
    LET tokens == SplitTokens(trim(line))
        t == parseFloat(tokens[1])
        p == parseFloat(tokens[2])
    IN  IF trim(line) = "" THEN <<>>
        ELSE IF Len(tokens) < 2 THEN <<>>
        ELSE IF isNaN(t) \/ isNaN(p) THEN <<>>
        ELSE <<[x |-> Times1000(t), y |-> p]>>

RECURSIVE VictoryParseLines(_)
VictoryParseLines(lines) ==
    IF lines = <<>> THEN <<>>
    ELSE VictoryParseLines(SubSeq(lines, 1, Len(lines) - 1))
             \o VictoryParseLine(lines[Len(lines)])

VictoryParsePitchData(t) == SortByTime(VictoryParseLines(SplitLines(t)))

\* filteredData of the card
VictoryFilteredData(pd, st, et) ==
    LET s == Number(st)
        e == Number(et)
        InWindow(p) == NumGe(p.x, s) /\ NumLe(p.x, e)
    IN  IF st = "" \/ et = "" THEN <<>>
        ELSE IF isNaN(s) \/ isNaN(e) \/ NumGe(s, e) THEN <<>>
        ELSE Filter(pd, InWindow)

\* the texts of the files selected and the values typed in the fields
VictoryTexts == SampleLines \cup {MalformedText, "0.01 440\n0 220"}
VictoryInputs == {"", "0", "0.25", "250"}

InitVictory ==
    /\ pc = "victory"
    /\ text = "" /\ data = <<>> /\ series = <<>>
    /\ pitchData = <<>> /\ startTime = "" /\ endTime = "" /\ tonic = ""
    /\ filtered = <<>> /\ rounded = FALSE
    /\ IdleCents /\ IdleMulti /\ IdleTicks

\* reader.onload of onFileChange for a file of text t
VictoryReaderOnload(t) ==
    /\ IF VictoryParsePitchData(t) = <<>>
       THEN UNCHANGED <<text, pitchData, startTime, endTime, filtered>>
       ELSE /\ text' = t
            /\ pitchData' = VictoryParsePitchData(t)
            /\ startTime' = ""
            /\ endTime' = ""
            /\ filtered' = VictoryFilteredData(pitchData', startTime', endTime')
    /\ UNCHANGED <<tickVars, pc, data, series, tonic, rounded, centsVars, multiVars>>

\* onStartTimeChange(index, value)
VictoryStartTimeChange(value) ==
    /\ startTime' = value
    /\ filtered' = VictoryFilteredData(pitchData, startTime', endTime)
    /\ UNCHANGED <<tickVars, pc, parseVars, pitchData, endTime, tonic, rounded,
                   centsVars, multiVars>>

\* onEndTimeChange(index, value)
VictoryEndTimeChange(value) ==
    /\ endTime' = value
    /\ filtered' = VictoryFilteredData(pitchData, startTime, endTime')
    /\ UNCHANGED <<tickVars, pc, parseVars, pitchData, startTime, tonic, rounded,
                   centsVars, multiVars>>

NextVictory ==
    \/ \E t \in VictoryTexts : VictoryReaderOnload(t)
    \/ \E value \in VictoryInputs : VictoryStartTimeChange(value)
    \/ \E value \in VictoryInputs : VictoryEndTimeChange(value)

SpecVictory == InitVictory /\ [][NextVictory]_vars

-----------------------------------------------------------------------------
(* Claims about the card of Victory.jsx, checked under SpecVictory *)

\* the samples of the lines of the text that are accepted, their time
\* being the number of the first token, in seconds
SamplesInSeconds == SortByTime(AcceptedRows(SplitLines(text)))

\* C19: the time of every sample parsed is the number of the first token
\* of its line, in seconds and not scaled, and the start and end of the
\* window are compared with the times of the samples in seconds
C19_TimesInSeconds ==
    pc = "victory" =>
        /\ pitchData = SamplesInSeconds
        /\ (/\ startTime # "" /\ endTime # ""
            /\ NumLt(Number(startTime), Number(endTime))) =>
               filtered = SelectSeq(SamplesInSeconds,
                                    LAMBDA p : /\ NumGe(p.x, Number(startTime))
                                               /\ NumLe(p.x, Number(endTime)))

-----------------------------------------------------------------------------
(* Uploads into the cards of the page while other reads are in flight:     *)
(* the page holds MaxCards fresh cards, files are selected for them and    *)
(* the reads complete in any order                                         *)

MaxReadsInFlight == 2

\* the files selected: those of Files and a second file of valid rows
UploadFiles == Files \cup { [name |-> "c.csv", text |-> "0.5 330"] }

InitUploads ==
    /\ pc = "page"
    /\ numCards = ToString(MaxCards)
    /\ useSameFile = FALSE
    /\ graphsData = [i \in 1..MaxCards |-> EmptyCard]
    /\ sharedFileData = [pitchData |-> <<>>, fileName |-> ""]
    /\ reads = {}
    /\ alert = ""
    /\ error = ""
    /\ IdleParse /\ IdleCents /\ IdleCard /\ IdleTicks

NextUploads ==
    \/ \E index \in 0..(MaxCards - 1), file \in UploadFiles :
           FileChangeWithin(MaxReadsInFlight, index, file)
    \/ \E r \in reads : ReaderOnload(r)

SpecUploads == InitUploads /\ [][NextUploads]_vars

\* the read r of a card is stale: another file, selected later for the
\* same card and holding valid rows, is being read
Stale(r) ==
    /\ ~r.shared
    /\ \E n \in reads :
           /\ ~n.shared /\ n.index = r.index /\ n.order > r.order
           /\ n.file # r.file
           /\ parsePitchData(n.file.text) # <<>>

\* C20: when two reads for the same card are in flight, the series the
\* card finally holds is that of the file selected last, in whatever order
\* the reads complete: a read that completes after a newer file was
\* selected for its card is discarded and does not change the card
C20_LatestRequestWins ==
    [][ \A r \in reads \ reads' : Stale(r) => graphsData' = graphsData ]_vars

-----------------------------------------------------------------------------
(* The value axis of a card: the domain, the ticks.  filtered holds the     *)
(* points displayed, min and max the domain the render uses, ticks the      *)
(* tick values of the axis.                                                 *)

CanvasHeight == 280
MarginTop == 35
MarginBottom == 45
SwaraSpacing == 40
VictoryTickHeight == 220
AxisTickCount == 5

\* Math.min(...values) and Math.max(...values) of finite values, at least one
RECURSIVE MathMin(_)
MathMin(values) ==
    IF Len(values) = 1 THEN values[1]
    ELSE LET rest == MathMin(Tail(values))
         IN  IF DLt(values[1], rest) THEN values[1] ELSE rest
RECURSIVE MathMax(_)
MathMax(values) ==
    IF Len(values) = 1 THEN values[1]
    ELSE LET rest == MathMax(Tail(values))
         IN  IF DGt(values[1], rest) THEN values[1] ELSE rest

\* filteredData.map(d => d.y)
ValuesOf(points) == [i \in 1..Len(points) |-> points[i].y]

\* safeCentsMin and safeCentsMax of drawGraph
SafeDomain(points) ==
    LET centsMin == MathMin(ValuesOf(points))
        centsMax == MathMax(ValuesOf(points))
    IN  [min |-> IF DEq(centsMin, centsMax) THEN DSub(centsMin, DOfInt(1)) ELSE centsMin,
         max |-> IF DEq(centsMin, centsMax) THEN DAdd(centsMax, DOfInt(1)) ELSE centsMax]

\* the domain of the VictoryChart and of the tickValues of its axis
VictoryDomain(points) ==
    [min |-> MathMin(ValuesOf(points)), max |-> MathMax(ValuesOf(points))]

\* the values displayed: cents at, below and above the tonic
DisplayValues ==
    { DOfInt(0 - 50), DOfInt(0), DOfInt(100), DOfInt(702), DOfThousandths(1200500) }
DisplayPoints ==
    {<<[x |-> DOfInt(0), y |-> v]>> : v \in DisplayValues}
        \cup {<<[x |-> DOfInt(0), y |-> v], [x |-> DOfInt(1), y |-> u]>> :
                  v \in DisplayValues, u \in DisplayValues}

InitAxis ==
    /\ pc = "display"
    /\ filtered \in DisplayPoints
    /\ min = DZero /\ max = DZero /\ count = 0
    /\ minCents = DZero /\ maxCents = DZero /\ minSpacing = DZero /\ height = DZero
    /\ allTicks = <<>> /\ ticks = <<>>
    /\ pitchData = <<>> /\ startTime = "" /\ endTime = "" /\ tonic = "" /\ rounded = FALSE
    /\ IdleParse /\ IdleCents /\ IdleMulti

\* drawGraph of part_002 with yAxisType 'swaras'
DrawGraphSwaras ==
    /\ pc = "display"
    /\ pc' = "canvasSwaras"
    /\ \E d \in {SafeDomain(filtered)} :
          /\ min' = d.min
          /\ max' = d.max
          /\ ticks' = getSwaraTicks(d.min, d.max, DOfInt(SwaraSpacing),
                                    DOfInt(CanvasHeight - MarginTop - MarginBottom))
    /\ UNCHANGED <<count, minCents, maxCents, minSpacing, height, allTicks,
                   parseVars, centsVars, cardVars, multiVars>>

\* drawGraph of part_002 with yAxisType 'cents'
DrawGraphCents ==
    /\ pc = "display"
    /\ pc' = "canvasCents"
    /\ \E d \in {SafeDomain(filtered)} :
          /\ min' = d.min
          /\ max' = d.max
          /\ ticks' = getYTicks(d.min, d.max, AxisTickCount)
    /\ UNCHANGED <<count, minCents, maxCents, minSpacing, height, allTicks,
                   parseVars, centsVars, cardVars, multiVars>>

\* the VictoryChart of part_002 with yAxisType 'swaras'
VictorySwaras ==
    /\ pc = "display"
    /\ pc' = "victorySwaras"
    /\ \E d \in {VictoryDomain(filtered)} :
          /\ min' = d.min
          /\ max' = d.max
          /\ \E t \in {getSwaraTicks(d.min, d.max, DOfInt(SwaraSpacing),
                                     DOfInt(VictoryTickHeight))} :
                ticks' = [i \in 1..Len(t) |-> t[i].value]
    /\ UNCHANGED <<count, minCents, maxCents, minSpacing, height, allTicks,
                   parseVars, centsVars, cardVars, multiVars>>

\* the VictoryChart of part_002 with yAxisType 'cents'
VictoryCents ==
    /\ pc = "display"
    /\ pc' = "victoryCents"
    /\ \E d \in {VictoryDomain(filtered)} :
          /\ min' = d.min
          /\ max' = d.max
          /\ ticks' = getYTicks(d.min, d.max, AxisTickCount)
    /\ UNCHANGED <<count, minCents, maxCents, minSpacing, height, allTicks,
                   parseVars, centsVars, cardVars, multiVars>>

NextAxis == DrawGraphSwaras \/ DrawGraphCents \/ VictorySwaras \/ VictoryCents

SpecAxis == InitAxis /\ [][NextAxis]_vars

-----------------------------------------------------------------------------
(* Claims about the value axis, checked under SpecAxis *)

AxisDrawn == pc \in {"canvasSwaras", "canvasCents", "victorySwaras", "victoryCents"}

\* C22: whenever the value axis is derived from a display sequence that is
\* not empty, the domain [min, max] used for the ticks and for the map of
\* values to pixels has min < max, a sequence of equal values having its
\* domain widened first, and the tick set is not empty
C22_DomainWidened ==
    (AxisDrawn /\ filtered # <<>>) =>
        /\ DLt(min, max)
        /\ ticks # <<>>

-----------------------------------------------------------------------------
(* Claims about the candidates of getSwaraTicks, checked under              *)
(* SpecSwaraTicks                                                           *)

\* the octaves k of the positions offset + k * 1200 looked for
PositionOctaves == (0 - 3)..3

SwaraPositions ==
    { SWARA_LABELS[i].cents + k * CentsPerOctave :
          i \in 1..Len(SWARA_LABELS), k \in PositionOctaves }

\* p lies in [minCents - 50, maxCents + 50], the two bounds as the
\* subtraction and the addition of doubles give them
InLabelRange(p) ==
    /\ DGe(DOfInt(p), DSub(minCents, DOfInt(LabelMargin)))
    /\ DLe(DOfInt(p), DAdd(maxCents, DOfInt(LabelMargin)))

CandidateValues == { DToInt(allTicks[i].value) : i \in 1..Len(allTicks) }

CoversExactly == CandidateValues = { p \in SwaraPositions : InLabelRange(p) }

C24_StrictlyIncreasing ==
    pc = "swaraTicks" =>
        \A i \in 1..(Len(allTicks) - 1) : DLt(allTicks[i].value, allTicks[i + 1].value)

\* the result of the call when both bounds are one value
SingleValue == pc = "swaraTicks" /\ DEq(minCents, maxCents)

TonicLabel(k) ==
    "Sa" \o (IF k > 0 THEN Repeat("'", k) ELSE "") \o (IF k < 0 THEN Repeat(",", 0 - k) ELSE "")

\* C29: two ticks of the result at one cents value carry the same label, and
\* a tick at a tonic position k * 1200 carries the marks of the octave k only
C29_TonicLabels ==
    pc = "swaraTicks" =>
        /\ \A i, j \in 1..Len(ticks) :
               DEq(ticks[i].value, ticks[j].value) => ticks[i].label = ticks[j].label
        /\ \A i \in 1..Len(ticks) : \A k \in PositionOctaves :
               DEq(ticks[i].value, DOfInt(k * CentsPerOctave))
                   => ticks[i].label = TonicLabel(k)

-----------------------------------------------------------------------------
(* PitchGraph.jsx: the recharts graph.  pitchData holds the rows of the     *)
(* file, filtered the state filteredData that the chart displays, startTime *)
(* and endTime the two fields.                                              *)

\* result.data of Papa.parse with header and dynamicTyping: rows of a file
\* with the columns time and pitch, a missing cell being null
PapaRows ==
    { <<>>,
      << [time |-> Fin(0), pitch |-> Fin(220000)], [time |-> Fin(10), pitch |-> Fin(440000)] >>,
      << [time |-> Null, pitch |-> Fin(100000)], [time |-> Fin(5), pitch |-> Fin(330000)] >>,
      << [time |-> Fin(20), pitch |-> Null] >> }

\* the values typed into the two fields
GraphInputs == {"", "abc", "0", "0.01"}

\* result.data.filter((row) => row.time != null && row.pitch != null)
RowsWithBoth(rows) == SelectSeq(rows, LAMBDA row : row.time # Null /\ row.pitch # Null)

\* pitchData.filter((d) => d.time >= start && d.time <= end)
RowsBetween(rows, start, end) ==
    SelectSeq(rows, LAMBDA d : NumGe(d.time, start) /\ NumLe(d.time, end))

InitGraph ==
    /\ pc = "graph"
    /\ pitchData = <<>>
    /\ filtered = <<>>
    /\ startTime = ""
    /\ endTime = ""
    /\ tonic = "" /\ rounded = FALSE
    /\ IdleParse /\ IdleCents /\ IdleMulti /\ IdleTicks

\* reader.onload of handleFileChange
GraphReaderOnload(rows) ==
    /\ pitchData' = RowsWithBoth(rows)
    /\ UNCHANGED <<pc, startTime, endTime, tonic, filtered, rounded,
                   parseVars, centsVars, multiVars, tickVars>>

\* onChange of the start field
GraphSetStartTime(value) ==
    /\ startTime' = value
    /\ UNCHANGED <<pc, pitchData, endTime, tonic, filtered, rounded,
                   parseVars, centsVars, multiVars, tickVars>>

\* onChange of the end field
GraphSetEndTime(value) ==
    /\ endTime' = value
    /\ UNCHANGED <<pc, pitchData, startTime, tonic, filtered, rounded,
                   parseVars, centsVars, multiVars, tickVars>>

\* handleFilter, the click on Show Graph
HandleFilter ==
    /\ filtered' = IF ~isNaN(parseFloat(startTime)) /\ ~isNaN(parseFloat(endTime))
                   THEN RowsBetween(pitchData, parseFloat(startTime), parseFloat(endTime))
                   ELSE filtered
    /\ UNCHANGED <<pc, pitchData, startTime, endTime, tonic, rounded,
                   parseVars, centsVars, multiVars, tickVars>>

NextGraph ==
    \/ \E rows \in PapaRows : GraphReaderOnload(rows)
    \/ \E value \in GraphInputs : GraphSetStartTime(value)
    \/ \E value \in GraphInputs : GraphSetEndTime(value)
    \/ HandleFilter

SpecGraph == InitGraph /\ [][NextGraph]_vars

-----------------------------------------------------------------------------
(* Claims about the recharts graph, checked under SpecGraph *)

\* the window filter applied to the rows and the fields of the state: no
\* row for a window that is not valid
WindowOfState ==
    IF isNaN(parseFloat(startTime)) \/ isNaN(parseFloat(endTime))
           \/ NumGe(parseFloat(startTime), parseFloat(endTime))
    THEN <<>>
    ELSE RowsBetween(pitchData, parseFloat(startTime), parseFloat(endTime))

\* C26: in every reachable state the points displayed are the window filter
\* applied to the current series and the current start and end values, and
\* a window that is not valid shows no point
C26_DisplayIsCurrent == pc = "graph" => filtered = WindowOfState

-----------------------------------------------------------------------------
(* Claims about reads that complete after the card count changed, checked   *)
(* under SpecMulti                                                          *)

\* a card record with every field of a card
CompleteCard(g) ==
    /\ g.kind = "card"
    /\ g.startTime # Undefined /\ g.endTime # Undefined
    /\ g.tonic # Undefined /\ g.fileName # Undefined

\* C28: after any interleaving of changes of the card count and completions
\* of reads the array holds the chosen number of cards, each a complete
\* record: a read of a card that completes leaves the length of the array
\* as it is, leaves no hole and no element short of a field, and makes no
\* render fail
C28_ReadsKeepCards ==
    [][ (\E r \in reads : ~r.shared /\ r \notin reads')
            => /\ Len(graphsData') = Len(graphsData)
               /\ \A i \in 1..Len(graphsData') : CompleteCard(graphsData'[i])
               /\ error' = error ]_vars

====
